---- MODULE Spec2Model ----
(***************************************************************************)
(* State-machine model of pennylane.qnode.QNode: tracing of a quantum      *)
(* function into an operation queue (construct / _append_op), evaluation   *)
(* on a device (evaluate) and the Jacobian engine (jacobian, _pd_analytic, *)
(* _pd_analytic_var, _pd_finite_diff).                                     *)
(*                                                                         *)
(* Python objects (operations, observables) live in a heap obj indexed by  *)
(* object identities, because the code aliases them: self.ev and self.ops  *)
(* hold the same observables, and copy.deepcopy makes new ones.  Calls are *)
(* frames on an explicit stack; an exception is a pending value exc that   *)
(* unwinds the stack one frame per step, running the finally clause of     *)
(* construct on the way.                                                   *)
(***************************************************************************)
EXTENDS Integers, Sequences, FiniteSets, TLC

\* ----------------------------------------------------------------- bounds
\* largest number of operation constructions in one quantum function body
MaxBody == 2
\* largest flattened length of the positional arguments of a call
MaxArgs == 2

\* ------------------------------------------------------------- vocabulary
Nodes == {"qn1", "qn2"}
NoCtx == "none"
NoExc == "none"
\* num_variables = None
NoneVars == -1
\* keyword-argument values: the caller passes "v0" or "v1" or nothing; the
\* quantum function declares the default "v0"
NoKw == "absent"
KwDefault == "v0"
KwValues == {"v0", "v1"}

\* Variable(idx, name): name "" is a positional slot, "kw" a keyword slot.
\* A parameter that is not a Variable is a plain number (var = FALSE).
Variable(idx, name) == [var |-> TRUE, idx |-> idx, name |-> name, mult |-> 1, val |-> ""]
Number(v) == [var |-> FALSE, idx |-> 0, name |-> "", mult |-> 1, val |-> v]

\* Capability descriptors of the operation library the QNode consumes:
\*   obs   isinstance(op, Observable)       cv    isinstance(op, CV)
\*   grad  class attribute grad_method      heis  supports_heisenberg
\*   ev_order  0 stands for None            inv   the observable squares to I
\*   dev   the device that supports the class ("any": every device)
\*   gate  the name is in device.operations (PauliZ is a gate as well as an
\*         observable); an observable's name is in device.observables
D(obs, cv, grad, heis, ev_order, inv, dev, gate) ==
    [obs |-> obs, cv |-> cv, grad |-> grad, heis |-> heis, ev_order |-> ev_order, inv |-> inv,
     dev |-> dev, gate |-> gate]

Desc(cls) ==
    CASE cls = "RX"           -> D(FALSE, FALSE, "A", FALSE, 0, FALSE, "qubit", TRUE)
      [] cls = "PauliZ"       -> D(TRUE, FALSE, "None", FALSE, 0, TRUE, "qubit", TRUE)
      [] cls = "Hermitian"    -> D(TRUE, FALSE, "F", FALSE, 0, FALSE, "qubit", FALSE)
      [] cls = "Displacement" -> D(FALSE, TRUE, "A", TRUE, 0, FALSE, "cv", TRUE)
      [] cls = "X"            -> D(TRUE, TRUE, "None", TRUE, 1, FALSE, "cv", FALSE)
      [] cls = "PolyXP"       -> D(TRUE, TRUE, "F", TRUE, 2, FALSE, "cv", FALSE)
      [] cls = "Identity"     -> D(TRUE, TRUE, "None", TRUE, 1, TRUE, "any", FALSE)
      [] cls = "QubitUnitary" -> D(FALSE, FALSE, "F", FALSE, 0, FALSE, "qubit", TRUE)
      [] cls = "BasisState"   -> D(FALSE, FALSE, "None", FALSE, 0, FALSE, "qubit", TRUE)
      [] cls = "Kerr"         -> D(FALSE, TRUE, "F", FALSE, 0, FALSE, "cv", TRUE)
      [] cls = "FockStateProjector" -> D(TRUE, TRUE, "None", FALSE, 0, FALSE, "cv", FALSE)

\* The device bound to a node: every node of the model uses a two-wire device
num_wires == 2

\* ---------------------------------------------------- quantum functions
\* One step of a quantum function body: the construction of an operation
\* (with the measurement function applied when rt is not "None"), a call of
\* a QNode, or a Python exception.  par names the value passed as the
\* operation's parameter: "a1", "a2", ... the positional arguments, "kw" the
\* keyword argument, "a1a2" the first two positional arguments as two
\* parameters, "2a1" twice the first positional argument, "const" a
\* literal, "none" no parameter.
OpInstr(cls, wire, par, rt) ==
    [k |-> "op", cls |-> cls, wire |-> wire, par |-> par, rt |-> rt, callee |-> "", single |-> FALSE, items |-> <<>>]
CallInstr(m) ==
    [k |-> "call", cls |-> "", wire |-> 0, par |-> "none", rt |-> "None", callee |-> m, single |-> FALSE, items |-> <<>>]
RaiseInstr ==
    [k |-> "raise", cls |-> "", wire |-> 0, par |-> "none", rt |-> "None", callee |-> "", single |-> FALSE, items |-> <<>>]
\* the return statement: a bare value (single) or a sequence; an item i > 0
\* is the object made by the i-th step of the body, 0 is a plain number
ReturnInstr(single, items) ==
    [k |-> "return", cls |-> "", wire |-> 0, par |-> "none", rt |-> "None", callee |-> "", single |-> single, items |-> items]

ArgName(i) == IF i = 1 THEN "a1" ELSE IF i = 2 THEN "a2" ELSE IF i = 3 THEN "a3" ELSE "a4"
\* the largest index of a positional argument that par reads
ArgIndex(par) == IF par \in {"a1", "2a1"} THEN 0 ELSE IF par \in {"a2", "a1a2"} THEN 1 ELSE IF par = "a3" THEN 2 ELSE 3
IsArg(par) == par \in {"a1", "a2", "a3", "a4", "a1a2", "2a1"}

\* the steps the traced quantum functions are built from
TraceInstrs ==
    {OpInstr("RX", 0, "a1", "None"), OpInstr("RX", 1, "kw", "None"),
     OpInstr("PauliZ", 0, "none", "Expectation"), OpInstr("PauliZ", 1, "none", "Variance"),
     OpInstr("PauliZ", 1, "none", "None"),
     CallInstr("qn1"), CallInstr("qn2"), RaiseInstr}

\* the quantum function of the second node: RX(x, wires=0); return expval(PauliZ(0))
PlainFunc ==
    <<OpInstr("RX", 0, "a1", "None"), OpInstr("PauliZ", 0, "none", "Expectation"), ReturnInstr(TRUE, <<2>>)>>

VARIABLES
    ctx,        \* QNode._current_context
    node,       \* the attributes of each QNode
    obj,        \* heap: object identity -> operation / observable
    binding,    \* Variable.free_param_values and Variable.kwarg_values
    stack,      \* call stack, innermost frame last
    exc,        \* the exception being propagated, NoExc when there is none
    func,       \* the quantum function of each node, as far as it has run
    conf,       \* how each node was created: cache argument and device
    last,       \* record of the jacobian call that has just finished
    device      \* the device of each node: _op_queue, _obs_queue, _parameters
                \* and what it has done since its last reset

vars == <<ctx, node, obj, binding, stack, exc, func, conf, last, device>>

\* ------------------------------------------------------------------ heap
\* An operation or observable instance.  params0 and rt0 remember what the
\* constructor was given (they are not attributes of the Python object).
NewOp(cls, wire, params, rt) ==
    [cls |-> cls, wires |-> <<wire>>, params |-> params, return_type |-> rt,
     grad_method |-> Desc(cls).grad, params0 |-> params, rt0 |-> rt]

IsObservable(h, x) == x # 0 /\ Desc(h[x].cls).obs

\* identity for a new object
NewId(h) == CHOOSE i \in 1..(Cardinality(DOMAIN h) + 1) : i \notin DOMAIN h /\ \A j \in 1..(i - 1) : j \in DOMAIN h

Range(s) == {s[i] : i \in 1..Len(s)}

NodeSeq == <<"qn1", "qn2">>

RECURSIVE Flatten(_)
Flatten(ss) == IF ss = <<>> THEN <<>> ELSE Head(ss) \o Flatten(Tail(ss))

\* every reference to an object held by a node or by a frame, in a fixed order
References(nd, st) ==
    Flatten([k \in 1..Len(NodeSeq) |-> nd[NodeSeq[k]].ops \o nd[NodeSeq[k]].queue \o nd[NodeSeq[k]].ev])
    \o Flatten([i \in 1..Len(st) |-> st[i].locals \o st[i].old_ev \o <<st[i].old, st[i].op>>])

\* Identities carry no information beyond equality, so every state is kept
\* with its live objects numbered in the order References meets them and
\* with the unreachable ones dropped.
Canonical(h, nd, st) ==
    LET refs == References(nd, st)
        firsts == SelectSeq([t \in 1..Len(refs) |-> t],
                            LAMBDA t : refs[t] # 0 /\ \A u \in 1..(t - 1) : refs[u] # refs[t])
        ren(x) == IF x = 0 THEN 0 ELSE CHOOSE p \in 1..Len(firsts) : refs[firsts[p]] = x
        rs(q) == [i \in 1..Len(q) |-> ren(q[i])]
    IN  [h |-> [p \in 1..Len(firsts) |-> h[refs[firsts[p]]]],
         nd |-> [n \in Nodes |-> [nd[n] EXCEPT !.ops = rs(@), !.queue = rs(@), !.ev = rs(@)]],
         st |-> [i \in 1..Len(st) |-> [st[i] EXCEPT !.locals = rs(@), !.old_ev = rs(@),
                                                     !.old = ren(@), !.op = ren(@)]]]

\* ----------------------------------------------------------------- nodes
\* QNode.__init__
NewNode(cache) ==
    [cache |-> cache, num_variables |-> NoneVars, ops |-> <<>>, variable_ops |-> <<>>,
     queue |-> <<>>, ev |-> <<>>, model |-> NoneVars, type |-> "unset",
     output_conversion |-> "unset", output_dim |-> 0, grad_method_for_par |-> <<>>,
     keyword_defaults |-> "unset", ops_len |-> NoneVars]

\* Variable.free_param_values and Variable.kwarg_values as they are before
\* any call.  free is the length of free_param_values and shift what its
\* last entry, the value of a temporary slot, is shifted by (0 when the
\* vector is the parameters of a call, or has the unshifted value appended).
Unbound == [free |-> NoneVars, kw |-> "unset", shift |-> 0]

\* --------------------------------------------------------------- devices
\* Device.__init__: the three attributes are None.  log is what the device
\* has been asked to do since it was last reset, every entry an event e and,
\* for a gate or an observable, its position i in the queue it came from.
NewDevice == [op_queue |-> "None", obs_queue |-> "None", parameters |-> "None", log |-> <<>>]

Event(e, i) == [e |-> e, i |-> i]

\* variant of reset that leaves the device as it is
ResetNothing(d) == d

\* device.reset(): the state is back to the initial one
Reset(d) == [d EXCEPT !.log = <<Event("reset", 0)>>]

\* ---------------------------------------------------------------- frames
NoParam == Number("")
Frame(fn, self, nargs, kw) ==
    [fn |-> fn, self |-> self, pc |-> "start", nargs |-> nargs, kw |-> kw,
     ip |-> 1, locals |-> <<>>,
     which |-> <<>>, all |-> FALSE, method |-> "", order |-> 1, i |-> 1, variances |-> FALSE, mmap |-> <<>>,
     idx |-> 0, force_order2 |-> FALSE, orig |-> NoParam,
     old_ev |-> <<>>, old |-> 0, op |-> 0, cache |-> FALSE, grad |-> <<>>, pdA2 |-> 0,
     results |-> <<>>, executions |-> 0, at_params |-> 0, shift |-> 0, ys |-> <<>>, pd |-> <<>>, reads |-> <<>>,
     had_ops |-> FALSE, cache0 |-> FALSE, nv0 |-> NoneVars, len0 |-> NoneVars, constructs |-> FALSE, traced |-> FALSE, snap |-> <<>>,
     first |-> <<>>]

Top == stack[Len(stack)]
Running(fn, pc) == stack # <<>> /\ exc = NoExc /\ Top.fn = fn /\ Top.pc = pc
SetTop(st, f) == [st EXCEPT ![Len(st)] = f]
Pop(st) == SubSeq(st, 1, Len(st) - 1)
Push(st, f) == Append(st, f)

\* evaluate, called with the temporary slot shifted by shift (0 when no slot
\* is shifted), returns to the stack st: the caller receives the value of
\* the circuit at that point, which stands for itself
Yield(st, shift) == IF st = <<>> THEN st ELSE SetTop(st, [st[Len(st)] EXCEPT !.ys = Append(@, shift)])

\* The call at the bottom of the stack counts the executions of the tape of
\* its node on the device that have returned to the frames above it
\* (executions), and those of them made by evaluate at the parameters of
\* the call itself (at_params): line 724 of jacobian and line 991 of
\* _pd_analytic_var.  st is the stack the execution of the tape of node n
\* returns to.
Counted(st, n) ==
    IF st = <<>> \/ st[1].self # n THEN st
    ELSE [st EXCEPT ![1].executions = @ + 1,
                    ![1].at_params = @ + (IF st[Len(st)].fn \in {"jacobian", "_pd_analytic_var"} THEN 1 ELSE 0)]

\* ------------------------------------------------------------- _append_op
\* variant of _append_op without the check of lines 270-271
AppendUnchecked(h, nd, x) ==
    IF Desc(h[x].cls).obs /\ h[x].return_type # "None"
    THEN [exc |-> NoExc, queue |-> nd.queue, ev |-> Append(nd.ev, x)]
    ELSE [exc |-> NoExc, queue |-> Append(nd.queue, x), ev |-> nd.ev]

\* QNode._append_op: the queue and ev of the node after op x is appended, or
\* the error it raises
_append_op(h, nd, x) ==
    IF Desc(h[x].cls).obs
    THEN IF h[x].return_type = "None"
         THEN [exc |-> NoExc, queue |-> Append(nd.queue, x), ev |-> nd.ev]
         ELSE [exc |-> NoExc, queue |-> nd.queue, ev |-> Append(nd.ev, x)]
    ELSE IF nd.ev # <<>>
         THEN [exc |-> "QuantumFunctionError", queue |-> nd.queue, ev |-> nd.ev]
         ELSE [exc |-> NoExc, queue |-> Append(nd.queue, x), ev |-> nd.ev]

\* ------------------------------------------------- construct, second half
\* _op_successors(o_idx, only): o is the position in ops, counted from 1
_op_successors(h, ops, o, only) ==
    LET succ == SubSeq(ops, o + 1, Len(ops))
    IN  IF only = "E" THEN SelectSeq(succ, LAMBDA x : Desc(h[x].cls).obs)
        ELSE IF only = "G" THEN SelectSeq(succ, LAMBDA x : ~Desc(h[x].cls).obs)
        ELSE succ

\* the loop over ev_successors in best_for_op; it may set op.grad_method
RECURSIVE ScanEvSuccessors(_, _, _, _)
ScanEvSuccessors(h, x, es, i) ==
    IF i > Len(es) THEN [m |-> "A", h |-> h]
    ELSE IF Desc(h[es[i]].cls).ev_order = 0 THEN [m |-> "F", h |-> h]
    ELSE IF Desc(h[es[i]].cls).ev_order = 2
         THEN IF h[es[i]].return_type = "Variance" THEN [m |-> "F", h |-> h]
              ELSE ScanEvSuccessors([h EXCEPT ![x].grad_method = "A2"], x, es, i + 1)
    ELSE ScanEvSuccessors(h, x, es, i + 1)

\* best_for_op(o_idx): the method and the heap after the call
best_for_op(h, ops, o) ==
    LET op == h[ops[o]]
    IN  IF ~Desc(op.cls).cv THEN [m |-> op.grad_method, h |-> h]
        ELSE IF op.grad_method = "A"
             THEN IF \A x \in Range(_op_successors(h, ops, o, "G")) : Desc(h[x].cls).heis
                  THEN ScanEvSuccessors(h, ops[o], _op_successors(h, ops, o, "E"), 1)
                  ELSE [m |-> "F", h |-> h]
        ELSE [m |-> op.grad_method, h |-> h]

\* temp = [best_for_op(k) for k, _ in ops]
RECURSIVE BestForSites(_, _, _, _)
BestForSitesCons(m, rest) == [ms |-> <<m>> \o rest.ms, h |-> rest.h]

BestForSitesFrom(r, ops, sites, i) ==
    BestForSitesCons(r.m, BestForSites(r.h, ops, sites, i + 1))

BestForSites(h, ops, sites, i) ==
    IF i > Len(sites) THEN [ms |-> <<>>, h |-> h]
    ELSE BestForSitesFrom(best_for_op(h, ops, sites[i][1] + 1), ops, sites, i)

\* lines 509-517: 'A' if every site allows it, None if some site forbids
\* differentiation, 'F' otherwise
BestOf(r) ==
    [m |-> IF \A i \in 1..Len(r.ms) : r.ms[i] = "A" THEN "A"
           ELSE IF \E i \in 1..Len(r.ms) : r.ms[i] = "None" THEN "None"
           ELSE "F",
     h |-> r.h]

\* _best_method(idx)
_best_method(h, ops, sites) == BestOf(BestForSites(h, ops, sites, 1))

\* variant of ParamSites that lists keyword Variables too
ParamSitesNamed(h, x, k) ==
    LET ps == h[x].params
        js == SelectSeq([j \in 1..Len(ps) |-> j], LAMBDA j : ps[j].var)
    IN  [t \in 1..Len(js) |-> <<ps[js[t]].idx, k - 1, js[t] - 1>>]

\* the occurrences of positional Variables in op k (counted from 1), as
\* <<slot, op index, parameter index>> with the indices counted from 0
ParamSites(h, x, k) ==
    LET ps == h[x].params
        js == SelectSeq([j \in 1..Len(ps) |-> j], LAMBDA j : ps[j].var /\ ps[j].name = "")
    IN  [t \in 1..Len(js) |-> <<ps[js[t]].idx, k - 1, js[t] - 1>>]

RECURSIVE AllSites(_, _, _)
AllSites(h, ops, k) ==
    IF k > Len(ops) THEN <<>> ELSE ParamSites(h, ops[k], k) \o AllSites(h, ops, k + 1)

\* self.variable_ops, lines 402-408
VariableOps(h, ops) ==
    LET all == AllSites(h, ops, 1)
        keys == {all[t][1] : t \in 1..Len(all)}
    IN  [s \in keys |-> LET mine == SelectSeq(all, LAMBDA e : e[1] = s)
                        IN  [t \in 1..Len(mine) |-> <<mine[t][2], mine[t][3]>>]]

\* the keys of variable_ops in insertion order
KeysInOrder(h, ops) ==
    LET all == AllSites(h, ops, 1)
        firsts == SelectSeq([t \in 1..Len(all) |-> t], LAMBDA t : \A u \in 1..(t - 1) : all[u][1] # all[t][1])
    IN  [t \in 1..Len(firsts) |-> all[firsts[t]][1]]

\* self.grad_method_for_par, lines 410-411: one _best_method per key
RECURSIVE GradMethods(_, _, _, _, _)
GradMethodsCons(key, m, rest) == [g |-> <<<<key, m>>>> \o rest.g, h |-> rest.h]

GradMethodsFrom(r, ops, vo, keys, i) ==
    GradMethodsCons(keys[i], r.m, GradMethods(r.h, ops, vo, keys, i + 1))

GradMethods(h, ops, vo, keys, i) ==
    IF i > Len(keys) THEN [g |-> <<>>, h |-> h]
    ELSE GradMethodsFrom(_best_method(h, ops, vo[keys[i]]), ops, vo, keys, i)

\* the value of the return statement: object identities, 0 for a number
ReturnValue(ins, locals) ==
    [single |-> ins.single,
     items |-> [i \in 1..Len(ins.items) |-> IF ins.items[i] = 0 THEN 0 ELSE locals[ins.items[i]]]]

\* variant of the return check that lets an empty sequence pass
AllObservables(h, rv) == \A i \in 1..Len(rv.items) : IsObservable(h, rv.items[i])

\* lines 352-374: the returned value is a single observable, or a non-empty
\* sequence of observables
ReturnShapeOk(h, rv) ==
    IF rv.single THEN IsObservable(h, rv.items[1])
    ELSE rv.items # <<>> /\ \A i \in 1..Len(rv.items) : IsObservable(h, rv.items[i])

\* variant of the order check that compares the objects but not their order
ReturnedInAnyOrder(res, ev) == Range(res) = Range(ev)

\* lines 382-385: all ev's are returned, in the correct order
ReturnedInOrder(res, ev) == res = ev

\* variant of the classification that counts identities too
CircuitTypeAll(h, ops) ==
    LET temp == {Desc(h[ops[k]].cls).cv : k \in 1..Len(ops)}
    IN  IF temp \subseteq {TRUE} THEN "CV" ELSE IF TRUE \notin temp THEN "qubit" ELSE "mixed"

\* lines 390-398: classification of the circuit contents
CircuitType(h, ops) ==
    LET temp == {Desc(h[ops[k]].cls).cv : k \in {j \in 1..Len(ops) : h[ops[j]].cls # "Identity"}}
    IN  IF temp \subseteq {TRUE} THEN "CV" ELSE IF TRUE \notin temp THEN "qubit" ELSE "mixed"

\* lines 400-411: the node with its circuit type, variable_ops and
\* grad_method_for_par filled in, and the heap best_for_op leaves behind
Classified(nd, type, vo, gm) ==
    [exc |-> NoExc,
     nd |-> [nd EXCEPT !.type = type, !.variable_ops = vo,
                       !.grad_method_for_par =
                           [s \in DOMAIN vo |->
                               LET t == CHOOSE t \in 1..Len(gm.g) : gm.g[t][1] = s
                               IN  gm.g[t][2]]],
     h |-> gm.h]

\* lines 387-411: ev and ops are installed, then the circuit is classified
Installed(h, nd, ops, type) ==
    IF type = "mixed" THEN [exc |-> "QuantumFunctionError", nd |-> nd, h |-> h]
    ELSE Classified(nd, type, VariableOps(h, ops),
                    GradMethods(h, ops, VariableOps(h, ops), KeysInOrder(h, ops), 1))

\* lines 352-411 of construct, after the quantum function has returned rv:
\* the node and the heap it leaves behind and the error it raises, if any
ConstructTail(h, nd, rv) ==
    IF ~ReturnShapeOk(h, rv) THEN [exc |-> "QuantumFunctionError", nd |-> nd, h |-> h]
    ELSE
    LET res == rv.items
        nd1 == [nd EXCEPT !.output_conversion =
                              IF rv.single
                              THEN IF h[res[1]].return_type = "Sample" THEN "squeeze" ELSE "float"
                              ELSE "asarray",
                          !.output_dim = Len(res)]
    IN  IF \E i \in 1..Len(res) : h[res[i]].return_type = "None"
        THEN [exc |-> "QuantumFunctionError", nd |-> nd1, h |-> h]
        ELSE IF ~ReturnedInOrder(res, nd.ev)
        THEN [exc |-> "QuantumFunctionError", nd |-> nd1, h |-> h]
        ELSE
        Installed(h, [nd1 EXCEPT !.ev = res, !.ops = nd.queue \o res,
                                 !.ops_len = nd.num_variables],
                  nd.queue \o res, CircuitType(h, nd.queue \o res))

\* ------------------------------------------------------------------ state
NoCall == [fn |-> "", self |-> "", exc |-> NoExc, cache0 |-> FALSE, snap |-> <<>>, first |-> <<>>]

\* The nodes right after QNode.__init__.  The quantum function of qn1 is
\* any function over TraceInstrs; qn2 is a cached node with PlainFunc.
InitTrace ==
    /\ ctx = NoCtx
    /\ conf \in [Nodes -> [cache : BOOLEAN, device : {"qubit"}]]
    /\ conf["qn2"].cache
    /\ node = [n \in Nodes |-> NewNode(conf[n].cache)]
    /\ obj = <<>>
    /\ binding = Unbound
    /\ stack = <<>>
    /\ exc = NoExc
    /\ func = [n \in Nodes |-> IF n = "qn2" THEN PlainFunc ELSE <<>>]
    /\ last = NoCall
    /\ device = [n \in Nodes |-> NewDevice]

\* The circuits the Jacobian engine is run on, each with its device:
\*   a one-gate circuit with one expectation (returned bare);
\*   a gate on a positional and a gate on a keyword argument, one variance;
\*   an expectation and the variance of a non-involutory Hermitian;
\*   the same slot used by two gates (fan-out), one variance;
\*   two variances measured on the same wire;
\*   a function that evaluates another node before its gate;
\*   a function that raises after its gate;
\*   a Gaussian circuit with the variance of a first-order observable;
\*   a function of two arguments with a gate on a wire the device lacks;
\*   a Gaussian circuit with a second-order and a first-order expectation
\*   measured on the same wire;
\*   a Gaussian circuit with a second-order expectation whose first gate is
\*   on a wire the device lacks;
\*   a discrete gate followed by a Gaussian gate;
\*   a discrete circuit that also returns the expectation of the identity;
\*   a Gaussian gate with two parameters before a second-order expectation;
\*   discrete gates with the hints None, 'A' and 'F', two on the same slot;
\*   a Gaussian gate before a non-Gaussian one;
\*   a Gaussian gate before the variance of a second-order observable;
\*   a Gaussian gate before an observable without a Heisenberg representation;
\*   a gate with the hint 'F' before a sampled observable;
\*   the variance of an involutory observable and that of a Hermitian;
\*   two Gaussian gates with a recipe of their own on the same slot, one of
\*   them on twice the argument, before a first-order expectation.
GradFuncs ==
    {[device |-> "qubit", script |-> <<OpInstr("RX", 0, "a1", "None"), OpInstr("PauliZ", 0, "none", "Expectation"),
                                       ReturnInstr(TRUE, <<2>>)>>],
     [device |-> "qubit", script |-> <<OpInstr("RX", 0, "a1", "None"), OpInstr("RX", 1, "kw", "None"),
                                       OpInstr("PauliZ", 0, "none", "Variance"), ReturnInstr(FALSE, <<3>>)>>],
     [device |-> "qubit", script |-> <<OpInstr("RX", 0, "a1", "None"), OpInstr("PauliZ", 0, "none", "Expectation"),
                                       OpInstr("Hermitian", 1, "const", "Variance"), ReturnInstr(FALSE, <<2, 3>>)>>],
     [device |-> "qubit", script |-> <<OpInstr("RX", 0, "a1", "None"), OpInstr("RX", 0, "a1", "None"),
                                       OpInstr("PauliZ", 0, "none", "Variance"), ReturnInstr(TRUE, <<3>>)>>],
     [device |-> "qubit", script |-> <<OpInstr("RX", 0, "a1", "None"), OpInstr("PauliZ", 0, "none", "Variance"),
                                       OpInstr("PauliZ", 0, "none", "Variance"), ReturnInstr(FALSE, <<2, 3>>)>>],
     [device |-> "qubit", script |-> <<CallInstr("qn2"), OpInstr("RX", 0, "a1", "None"),
                                       OpInstr("PauliZ", 0, "none", "Expectation"), ReturnInstr(TRUE, <<3>>)>>],
     [device |-> "qubit", script |-> <<OpInstr("RX", 0, "a1", "None"), RaiseInstr>>],
     [device |-> "cv", script |-> <<OpInstr("Displacement", 0, "a1", "None"), OpInstr("X", 0, "none", "Variance"),
                                    ReturnInstr(TRUE, <<2>>)>>],
     [device |-> "qubit", script |-> <<OpInstr("RX", 0, "a1", "None"), OpInstr("RX", num_wires, "a2", "None"),
                                       OpInstr("PauliZ", 0, "none", "Expectation"), ReturnInstr(TRUE, <<3>>)>>],
     [device |-> "cv", script |-> <<OpInstr("Displacement", 0, "a1", "None"), OpInstr("PolyXP", 0, "const", "Expectation"),
                                    OpInstr("X", 0, "none", "Expectation"), ReturnInstr(FALSE, <<2, 3>>)>>],
     [device |-> "cv", script |-> <<OpInstr("Displacement", num_wires, "const", "None"), OpInstr("Displacement", 0, "a1", "None"),
                                    OpInstr("PolyXP", 0, "const", "Expectation"), ReturnInstr(TRUE, <<3>>)>>],
     [device |-> "qubit", script |-> <<OpInstr("RX", 0, "a1", "None"), OpInstr("Displacement", 0, "const", "None"),
                                       OpInstr("PauliZ", 0, "none", "Expectation"), ReturnInstr(TRUE, <<3>>)>>],
     [device |-> "qubit", script |-> <<OpInstr("RX", 0, "a1", "None"), OpInstr("PauliZ", 0, "none", "Expectation"),
                                       OpInstr("Identity", 1, "none", "Expectation"), ReturnInstr(FALSE, <<2, 3>>)>>],
     [device |-> "cv", script |-> <<OpInstr("Displacement", 0, "a1a2", "None"), OpInstr("PolyXP", 0, "const", "Expectation"),
                                    ReturnInstr(TRUE, <<2>>)>>],
     [device |-> "qubit", script |-> <<OpInstr("BasisState", 0, "a2", "None"), OpInstr("RX", 0, "a1", "None"),
                                       OpInstr("QubitUnitary", 1, "a1", "None"),
                                       OpInstr("PauliZ", 0, "none", "Expectation"), ReturnInstr(TRUE, <<4>>)>>],
     [device |-> "cv", script |-> <<OpInstr("Displacement", 0, "a1", "None"), OpInstr("Kerr", 0, "a2", "None"),
                                    OpInstr("X", 0, "none", "Expectation"), ReturnInstr(TRUE, <<3>>)>>],
     [device |-> "cv", script |-> <<OpInstr("Displacement", 0, "a1", "None"), OpInstr("PolyXP", 0, "const", "Variance"),
                                    ReturnInstr(TRUE, <<2>>)>>],
     [device |-> "cv", script |-> <<OpInstr("Displacement", 0, "a1", "None"),
                                    OpInstr("FockStateProjector", 0, "const", "Expectation"), ReturnInstr(TRUE, <<2>>)>>],
     [device |-> "qubit", script |-> <<OpInstr("QubitUnitary", 0, "a1", "None"), OpInstr("PauliZ", 0, "none", "Sample"),
                                       ReturnInstr(TRUE, <<2>>)>>],
     [device |-> "qubit", script |-> <<OpInstr("RX", 0, "a1", "None"), OpInstr("PauliZ", 0, "none", "Variance"),
                                       OpInstr("Hermitian", 1, "const", "Variance"), ReturnInstr(FALSE, <<2, 3>>)>>],
     [device |-> "cv", script |-> <<OpInstr("Displacement", 0, "2a1", "None"), OpInstr("Displacement", 1, "a1", "None"),
                                    OpInstr("X", 0, "none", "Expectation"), ReturnInstr(TRUE, <<3>>)>>]}

\* The nodes right after QNode.__init__: qn1 wraps one of GradFuncs, with
\* caching on or off; qn2 is a cached node with PlainFunc.
Init ==
    /\ ctx = NoCtx
    /\ \E g \in GradFuncs, c \in BOOLEAN :
        /\ conf = [n \in Nodes |-> IF n = "qn1" THEN [cache |-> c, device |-> g.device]
                                   ELSE [cache |-> TRUE, device |-> "qubit"]]
        /\ func = [n \in Nodes |-> IF n = "qn1" THEN g.script ELSE PlainFunc]
    /\ node = [n \in Nodes |-> NewNode(conf[n].cache)]
    /\ obj = <<>>
    /\ binding = Unbound
    /\ stack = <<>>
    /\ exc = NoExc
    /\ last = NoCall
    /\ device = [n \in Nodes |-> NewDevice]

\* the next state holds heap h, nodes nd and stack st
Install(h, nd, st) ==
    LET c == Canonical(h, nd, st)
    IN  obj' = c.h /\ node' = c.nd /\ stack' = c.st

\* what is recorded of a jacobian call when its frame f is left with e
Finished(f, e) ==
    [fn |-> f.fn, self |-> f.self, exc |-> e, cache0 |-> f.cache0, snap |-> f.snap, first |-> f.first]

\* the innermost frame is left; leaving the frame of a jacobian call made
\* from the top level ends that call
Leaving(e) == last' = IF Len(stack) = 1 /\ Top.fn = "jacobian" THEN Finished(Top, e) ELSE last

\* a caller of the public API: evaluate / __call__
CallEvaluate(n, nargs, kw) ==
    /\ stack = <<>>
    /\ stack' = <<Frame("evaluate", n, nargs, kw)>>
    /\ exc' = NoExc
    /\ last' = NoCall
    /\ UNCHANGED <<ctx, node, obj, binding, func, conf, device>>

\* variant of the decision of evaluate without the length test of line 538
ConstructWheneverUncached(nd, nargs) == nd.ops = <<>> \/ ~nd.cache

\* lines 535-555 of evaluate: whether construct is called
NeedsConstruct(nd, nargs) ==
    /\ nd.ops = <<>> \/ ~nd.cache
    /\ nd.num_variables # NoneVars => nargs = nd.num_variables

\* what a frame remembers of the node at its entry
Entered(f, nd, constructs) ==
    [f EXCEPT !.had_ops = nd.ops # <<>>, !.cache0 = nd.cache, !.nv0 = nd.num_variables, !.len0 = nd.ops_len,
              !.constructs = constructs]

EvaluateStart ==
    /\ Running("evaluate", "start")
    /\ LET f == Top
           need == NeedsConstruct(node[f.self], f.nargs)
           g == [Entered(f, node[f.self], need) EXCEPT !.pc = "bind"]
       IN  stack' = IF need THEN Push(SetTop(stack, g), Frame("construct", f.self, f.nargs, f.kw))
                    ELSE SetTop(stack, g)
    /\ UNCHANGED <<ctx, node, obj, binding, exc, func, conf, last, device>>

\* variant of the entry into the context without the check of line 330
EnterUnchecked(c, n) == [ctx |-> n, exc |-> NoExc]

\* lines 330-334: the new context and whether entering is an error
EnterContext(c, n) ==
    IF c = NoCtx THEN [ctx |-> n, exc |-> NoExc] ELSE [ctx |-> c, exc |-> "QuantumFunctionError"]

\* lines 294-334 of construct
ConstructEnter ==
    /\ Running("construct", "start")
    /\ LET f == Top
           n == f.self
           e == EnterContext(ctx, n)
           parent == [stack[Len(stack) - 1] EXCEPT !.traced = TRUE]
           nd1 == [node EXCEPT ![n] = [@ EXCEPT !.queue = <<>>, !.ev = <<>>,
                                                !.num_variables = f.nargs, !.model = f.nargs,
                                                !.keyword_defaults = KwDefault]]
       IN  /\ binding' = [free |-> f.nargs, kw |-> IF f.kw = NoKw THEN KwDefault ELSE f.kw, shift |-> 0]
           /\ ctx' = e.ctx
           /\ exc' = e.exc
           /\ Install(obj, nd1,
                      IF e.exc = NoExc
                      THEN SetTop([stack EXCEPT ![Len(stack) - 1] = parent], [f EXCEPT !.pc = "func"])
                      ELSE stack)
    /\ UNCHANGED <<func, conf, last, device>>

\* --------------------------------------------- running the quantum function
Reverse(q) == [i \in 1..Len(q) |-> q[Len(q) + 1 - i]]

\* The return statements a function can end in after making the objects
\* locals: the measured observables in the order they were made, and that
\* sequence with one thing wrong (a single value where a sequence is due,
\* another order, one missing, one extra, a number, an unmeasured object).
ReturnChoices(h, locals) ==
    LET made == SelectSeq([i \in 1..Len(locals) |-> i], LAMBDA i : locals[i] # 0)
        isEv(i) == Desc(h[locals[i]].cls).obs /\ h[locals[i]].return_type # "None"
        evs == SelectSeq(made, isEv)
        others == {made[t] : t \in {u \in 1..Len(made) : ~isEv(made[u])}}
    IN  {ReturnInstr(FALSE, evs), ReturnInstr(FALSE, Reverse(evs)), ReturnInstr(FALSE, <<>>),
         ReturnInstr(FALSE, evs \o <<0>>), ReturnInstr(TRUE, <<0>>)}
        \cup (IF evs = <<>> THEN {}
              ELSE {ReturnInstr(TRUE, <<evs[1]>>), ReturnInstr(FALSE, Tail(evs)),
                    ReturnInstr(FALSE, evs \o <<evs[1]>>)})
        \cup {ReturnInstr(FALSE, evs \o <<q>>) : q \in others}
        \cup {ReturnInstr(TRUE, <<q>>) : q \in others}

\* The quantum function of a node is fixed, but it is revealed only as far as
\* a trace has run it: the step at ip is the recorded one, or a new one that
\* is recorded from then on.
NextInstrs(n, f) ==
    IF f.ip <= Len(func[n]) THEN {func[n][f.ip]}
    ELSE (IF f.ip <= MaxBody THEN TraceInstrs ELSE {}) \cup ReturnChoices(obj, f.locals)

Reveal(n, f, ins) == IF f.ip <= Len(func[n]) THEN func ELSE [func EXCEPT ![n] = Append(@, ins)]

\* the parameters an operation is constructed with, lines 300-343: positional
\* arguments are Variables; keyword arguments are Variables only when caching
CallParams(par, cache, kw) ==
    IF par = "none" THEN <<>>
    ELSE IF par = "const" THEN <<Number("c")>>
    ELSE IF par = "kw" THEN (IF cache THEN <<Variable(0, "kw")>> ELSE <<Number(kw)>>)
    ELSE IF par = "a1a2" THEN <<Variable(0, ""), Variable(1, "")>>
    ELSE IF par = "2a1" THEN <<[Variable(0, "") EXCEPT !.mult = 2]>>
    ELSE <<Variable(ArgIndex(par), "")>>

\* self.func(...) constructs an operation, which appends itself to the node
\* that holds the context (line 340 / 343, and _append_op)
BuilderOp ==
    /\ Running("construct", "func")
    /\ \E ins \in NextInstrs(Top.self, Top) :
        /\ ins.k = "op"
        /\ func' = Reveal(Top.self, Top, ins)
        /\ LET f == Top
               kw == IF f.kw = NoKw THEN KwDefault ELSE f.kw
               x == NewId(obj)
               h1 == obj @@ (x :> NewOp(ins.cls, ins.wire, CallParams(ins.par, node[f.self].cache, kw), ins.rt))
               a == _append_op(h1, node[ctx], x)
           IN  IF IsArg(ins.par) /\ ArgIndex(ins.par) >= f.nargs
               THEN exc' = "IndexError" /\ UNCHANGED <<node, obj, stack>>
               ELSE /\ exc' = a.exc
                    /\ Install(h1, [node EXCEPT ![ctx] = [@ EXCEPT !.queue = a.queue, !.ev = a.ev]],
                               IF a.exc = NoExc
                               THEN SetTop(stack, [f EXCEPT !.ip = @ + 1, !.locals = Append(@, x)])
                               ELSE stack)
    /\ UNCHANGED <<ctx, binding, conf, last, device>>

\* the quantum function calls a QNode (QNode.__call__, lines 519-523)
BuilderCall ==
    /\ Running("construct", "func")
    /\ \E ins \in NextInstrs(Top.self, Top) :
        /\ ins.k = "call"
        /\ func' = Reveal(Top.self, Top, ins)
        /\ stack' = Push(SetTop(stack, [Top EXCEPT !.ip = @ + 1, !.locals = Append(@, 0)]),
                          Frame("evaluate", ins.callee, 1, NoKw))
    /\ UNCHANGED <<ctx, node, obj, binding, exc, conf, last, device>>

\* the quantum function raises
BuilderRaise ==
    /\ Running("construct", "func")
    /\ \E ins \in NextInstrs(Top.self, Top) :
        /\ ins.k = "raise"
        /\ func' = Reveal(Top.self, Top, ins)
        /\ exc' = "BuilderError"
    /\ UNCHANGED <<ctx, node, obj, binding, stack, conf, last, device>>

\* variant of construct whose cleanup is not in a finally clause
KeepContext(c) == c

\* lines 344-346, the finally clause: the context after it, when the
\* quantum function returned and when it raised
FinallyOnReturn(c) == NoCtx
FinallyOnRaise(c) == NoCtx

\* the quantum function returns: lines 344-411
ConstructFinish ==
    /\ Running("construct", "func")
    /\ \E ins \in NextInstrs(Top.self, Top) :
        /\ ins.k = "return"
        /\ func' = Reveal(Top.self, Top, ins)
        /\ LET f == Top
               r == ConstructTail(obj, node[f.self], ReturnValue(ins, f.locals))
           IN  /\ ctx' = FinallyOnReturn(ctx)
               /\ exc' = r.exc
               /\ Install(r.h, [node EXCEPT ![f.self] = r.nd],
                          IF r.exc = NoExc THEN Pop(stack) ELSE SetTop(stack, [f EXCEPT !.pc = "check"]))
    /\ UNCHANGED <<binding, conf, last, device>>

\* an exception leaves the innermost frame; a construct frame whose quantum
\* function is running executes its finally clause
Unwind ==
    /\ stack # <<>>
    /\ exc # NoExc
    /\ ctx' = IF Top.fn = "construct" /\ Top.pc = "func" THEN FinallyOnRaise(ctx) ELSE ctx
    /\ Leaving(exc)
    /\ Install(obj, node, Pop(stack))
    /\ UNCHANGED <<binding, exc, func, conf, device>>

\* ---------------------------------------------------------------- device
\* Device.check_validity, _device.py lines 377-383
Supports(dev, cls) == Desc(cls).dev \in {dev, "any"}

\* the check of the gates alone
check_validityOfGates(h, dev, queue, observables) ==
    \A i \in 1..Len(queue) : Desc(h[queue[i]].cls).gate /\ Supports(dev, h[queue[i]].cls)

check_validity(h, dev, queue, observables) ==
    /\ \A i \in 1..Len(queue) : Desc(h[queue[i]].cls).gate /\ Supports(dev, h[queue[i]].cls)
    /\ \A i \in 1..Len(observables) : Desc(h[observables[i]].cls).obs /\ Supports(dev, h[observables[i]].cls)

\* Device.execute, _device.py lines 206-218: the operations the device
\* applies, in order; none when check_validity raises
Applied(h, dev, queue, observables) ==
    IF check_validity(h, dev, queue, observables) THEN queue ELSE <<>>

\* operation.parameters can be read under the binding: every positional
\* Variable indexes into free_param_values (free is its length)
Resolvable(h, x, free) ==
    \A j \in 1..Len(h[x].params) :
        (h[x].params[j].var /\ h[x].params[j].name = "") => h[x].params[j].idx < free

\* Device.execute, _device.py lines 188-249: the errors it can end in.  A
\* device may fail in apply or in a measurement for reasons of its own.
ExecuteOutcomes(h, dev, queue, observables, free) ==
    IF ~check_validity(h, dev, queue, observables) THEN {"DeviceError"}
    ELSE IF \E x \in Range(queue) \cup Range(observables) : ~Resolvable(h, x, free) THEN {"IndexError"}
    ELSE {NoExc, "DeviceError"}

\* lines 580-583: no wire is measured more than once
MeasuredOnce(h, ev) ==
    LET m_wires == [i \in 1..Len(ev) |-> h[ev[i]].wires[1]]
    IN  Len(m_wires) = Cardinality(Range(m_wires))

\* lines 585-594: only existing wires are referenced
check_op(h, x) == \A i \in 1..Len(h[x].wires) : ~(h[x].wires[i] < 0 \/ h[x].wires[i] >= num_wires)

\* variant of the conversion in which a single observable is returned as an
\* array of length one
ConvertedAsArray(conversion, m) ==
    [kind |-> IF conversion = "squeeze" THEN "samples" ELSE "array", len |-> m]

\* line 597: output_conversion applied to the m results of the device.
\* float gives a scalar and is an error unless m = 1, np.squeeze gives the
\* samples of the one observable, np.asarray an array of length m.
Converted(conversion, m) ==
    IF conversion = "float" THEN [kind |-> IF m = 1 THEN "scalar" ELSE "TypeError", len |-> 1]
    ELSE [kind |-> IF conversion = "squeeze" THEN "samples" ELSE "array", len |-> m]

\* lines 578-597 of evaluate: the errors the call can end in
EvaluateOutcomes(h, nd, dev, free) ==
    IF ~MeasuredOnce(h, nd.ev) THEN {"QuantumFunctionError"}
    ELSE IF \E x \in Range(nd.ops) : ~check_op(h, x) THEN {"QuantumFunctionError"}
    ELSE LET E == ExecuteOutcomes(h, dev, nd.queue, nd.ev, free)
         IN  IF nd.output_conversion = "unset" THEN (E \ {NoExc}) \cup {"AttributeError"}
             ELSE IF Converted(nd.output_conversion, Len(nd.ev)).kind = "TypeError"
             THEN (E \ {NoExc}) \cup {"TypeError"}
             ELSE E

\* lines 557-597 of evaluate
EvaluateExecute ==
    /\ Running("evaluate", "bind")
    /\ LET f == Top
       IN  /\ binding' = [free |-> f.nargs, kw |-> IF f.kw = NoKw THEN node[f.self].keyword_defaults ELSE f.kw,
                       shift |-> f.shift]
           /\ \E e \in EvaluateOutcomes(obj, node[f.self], conf[f.self].device, f.nargs) :
                /\ exc' = e
                /\ IF e = NoExc THEN Leaving(NoExc) /\ Install(obj, node, Yield(Counted(Pop(stack), Top.self), Top.shift))
                   ELSE UNCHANGED <<obj, node, stack, last>>
    /\ UNCHANGED <<ctx, func, conf, device>>

\* -------------------------------------------------------------- jacobian
\* a caller of the public API: jacobian(params, which, method, order);
\* all stands for which=None
CallJacobian(n, nargs, kw, all, which, method, order) ==
    /\ stack = <<>>
    /\ stack' = <<[Frame("jacobian", n, nargs, kw) EXCEPT !.all = all, !.which = which,
                                                          !.method = method, !.order = order]>>
    /\ exc' = NoExc
    /\ last' = NoCall
    /\ UNCHANGED <<ctx, node, obj, binding, func, conf, device>>

\* variant of the decision of jacobian that ignores the cache
ConstructAlways(nd) == TRUE

\* lines 678-680 of jacobian: whether construct is called
JacobianNeedsConstruct(nd) == nd.ops = <<>> \/ ~nd.cache

JacobianStart ==
    /\ Running("jacobian", "start")
    /\ LET f == Top
           need == JacobianNeedsConstruct(node[f.self])
           g == [Entered(f, node[f.self], need) EXCEPT !.pc = "check"]
       IN  stack' = IF need THEN Push(SetTop(stack, g), Frame("construct", f.self, f.nargs, f.kw))
                    ELSE SetTop(stack, g)
    /\ UNCHANGED <<ctx, node, obj, binding, exc, func, conf, last, device>>

\* what the tape holds, without the identities: class, wires, parameters and
\* return type of every entry of queue, ev and ops
Content(h, q) ==
    [i \in 1..Len(q) |-> [cls |-> h[q[i]].cls, wires |-> h[q[i]].wires, params |-> h[q[i]].params,
                          return_type |-> h[q[i]].return_type]]
TapeContent(h, nd) == <<Content(h, nd.queue), Content(h, nd.ev), Content(h, nd.ops)>>

\* variant of the requested slots in which a keyword argument of the call
\* counts as one more slot
WhichWithKeywords(f) ==
    IF f.all THEN [i \in 1..(f.nargs + IF f.kw = NoKw THEN 0 ELSE 1) |-> i - 1] ELSE f.which

\* lines 690-697: the requested slots
Which(f) == IF f.all THEN [i \in 1..f.nargs |-> i - 1] ELSE f.which

\* variant of the checks of jacobian that lets method 'A' pass for slots
\* whose method is 'F'
JacobianErrorAnyA(h, nd, f) ==
    LET which == Which(f)
        bad(m) == {k \in DOMAIN nd.grad_method_for_par : nd.grad_method_for_par[k] = m} \cap Range(which)
    IN  IF \E i \in 1..Len(nd.ev) : h[nd.ev[i]].return_type = "Sample" THEN "QuantumFunctionError"
        ELSE IF ~f.all /\ (which = <<>> \/ \E i \in 1..Len(which) : which[i] < 0 \/ which[i] >= nd.num_variables)
             THEN "ValueError"
        ELSE IF ~f.all /\ Len(which) # Cardinality(Range(which)) THEN "ValueError"
        ELSE IF bad("None") # {} THEN "ValueError"
        ELSE IF f.method \notin {"A", "F", "B"} THEN "ValueError"
        ELSE NoExc

\* variant of the checks of jacobian without the test for repeated indices
JacobianErrorRepeats(h, nd, f) ==
    LET which == Which(f)
        bad(m) == {k \in DOMAIN nd.grad_method_for_par : nd.grad_method_for_par[k] = m} \cap Range(which)
    IN  IF \E i \in 1..Len(nd.ev) : h[nd.ev[i]].return_type = "Sample" THEN "QuantumFunctionError"
        ELSE IF ~f.all /\ (which = <<>> \/ \E i \in 1..Len(which) : which[i] < 0 \/ which[i] >= nd.num_variables)
             THEN "ValueError"
        ELSE IF bad("None") # {} THEN "ValueError"
        ELSE IF f.method = "A" /\ bad("F") # {} THEN "ValueError"
        ELSE IF f.method \notin {"A", "F", "B"} THEN "ValueError"
        ELSE NoExc

\* variant of the checks of jacobian that looks for sampled observables
\* after the argument checks
JacobianErrorSampleLast(h, nd, f) ==
    LET which == Which(f)
        bad(m) == {k \in DOMAIN nd.grad_method_for_par : nd.grad_method_for_par[k] = m} \cap Range(which)
    IN  IF ~f.all /\ (which = <<>> \/ \E i \in 1..Len(which) : which[i] < 0 \/ which[i] >= nd.num_variables)
        THEN "ValueError"
        ELSE IF ~f.all /\ Len(which) # Cardinality(Range(which)) THEN "ValueError"
        ELSE IF bad("None") # {} THEN "ValueError"
        ELSE IF f.method = "A" /\ bad("F") # {} THEN "ValueError"
        ELSE IF f.method \notin {"A", "F", "B"} THEN "ValueError"
        ELSE IF \E i \in 1..Len(nd.ev) : h[nd.ev[i]].return_type = "Sample" THEN "QuantumFunctionError"
        ELSE NoExc

\* lines 682-719 of jacobian: the error raised, if any
JacobianError(h, nd, f) ==
    LET which == Which(f)
        bad(m) == {k \in DOMAIN nd.grad_method_for_par : nd.grad_method_for_par[k] = m} \cap Range(which)
    IN  IF \E i \in 1..Len(nd.ev) : h[nd.ev[i]].return_type = "Sample" THEN "QuantumFunctionError"
        ELSE IF ~f.all /\ (which = <<>> \/ \E i \in 1..Len(which) : which[i] < 0 \/ which[i] >= nd.num_variables)
             THEN "ValueError"
        ELSE IF ~f.all /\ Len(which) # Cardinality(Range(which)) THEN "ValueError"
        ELSE IF bad("None") # {} THEN "ValueError"
        ELSE IF f.method = "A" /\ bad("F") # {} THEN "ValueError"
        ELSE IF f.method \notin {"A", "F", "B"} THEN "ValueError"
        ELSE NoExc

\* lines 709-719: the method used for each slot
MethodMap(nd, f) ==
    IF f.method = "B" THEN nd.grad_method_for_par
    ELSE [k \in Range(Which(f)) |-> f.method]

\* variant of the decision about y0 that ignores the order
NeedsY0Always(mm, order) == \E k \in DOMAIN mm : mm[k] = "F"

\* lines 721-726: whether the value of the circuit at params is computed
NeedsY0(mm, order) == order = 1 /\ \E k \in DOMAIN mm : mm[k] = "F"

\* lines 682-726 of jacobian
JacobianCheck ==
    /\ Running("jacobian", "check")
    /\ LET f == Top
           nd == node[f.self]
           e == JacobianError(obj, nd, f)
           mm == MethodMap(nd, f)
           g == [f EXCEPT !.pc = "variances", !.which = Which(f), !.mmap = mm,
                          !.snap = TapeContent(obj, nd)]
       IN  /\ exc' = e
           /\ stack' = IF e # NoExc THEN SetTop(stack, [f EXCEPT !.snap = TapeContent(obj, nd)])
                        ELSE IF NeedsY0(mm, f.order)
                        THEN Push(SetTop(stack, g), Frame("evaluate", f.self, f.nargs, f.kw))
                        ELSE SetTop(stack, g)
    /\ UNCHANGED <<ctx, node, obj, binding, func, conf, last, device>>

\* line 731: the shape of the matrix, rows and columns
GradShape(nd, which) == <<nd.output_dim, Len(which)>>

\* lines 728-731 of jacobian
JacobianVariances ==
    /\ Running("jacobian", "variances")
    /\ stack' = SetTop(stack, [Top EXCEPT !.pc = "loop", !.i = 1,
                   !.grad = GradShape(node[Top.self], Top.which),
                   !.variances = \E i \in 1..Len(node[Top.self].ev) :
                                     obj[node[Top.self].ev[i]].return_type = "Variance"])
    /\ UNCHANGED <<ctx, node, obj, binding, exc, func, conf, last, device>>

\* variant of the test for an unused slot that skips a slot only when no
\* method was chosen for it
UnusedSlotUnmapped(nd, f, k) == k \notin DOMAIN nd.variable_ops /\ k \notin DOMAIN f.mmap

\* lines 735-737: no operation of the tape depends on slot k
UnusedSlot(nd, f, k) == k \notin DOMAIN nd.variable_ops

\* lines 733-749 of jacobian: one column, or the return
JacobianLoop ==
    /\ Running("jacobian", "loop")
    /\ LET f == Top
           nd == node[f.self]
           k == f.which[f.i]
           next == [f EXCEPT !.i = @ + 1]
           child(fn) == [Frame(fn, f.self, f.nargs, f.kw) EXCEPT !.idx = k, !.order = f.order]
       IN  IF f.i > Len(f.which)
           THEN Leaving(NoExc) /\ Install(obj, node, Pop(stack)) /\ UNCHANGED exc
           ELSE /\ UNCHANGED <<obj, node, last>>
                /\ IF UnusedSlot(nd, f, k)
                   THEN stack' = SetTop(stack, next) /\ UNCHANGED exc
                   ELSE IF f.mmap[k] = "A"
                   THEN /\ stack' = Push(SetTop(stack, next),
                                         child(IF f.variances THEN "_pd_analytic_var" ELSE "_pd_analytic"))
                        /\ UNCHANGED exc
                   ELSE IF f.mmap[k] = "F"
                   THEN stack' = Push(SetTop(stack, next), child("_pd_finite_diff")) /\ UNCHANGED exc
                   ELSE exc' = "ValueError" /\ UNCHANGED stack
    /\ UNCHANGED <<ctx, binding, func, conf, device>>

\* _pd_finite_diff, lines 765-782
PdFiniteDiff ==
    /\ stack # <<>> /\ exc = NoExc /\ Top.fn = "_pd_finite_diff"
    /\ LET f == Top
           eval == Frame("evaluate", f.self, f.nargs, f.kw)
       IN  IF f.pc = "start"
           THEN IF f.order = 1 THEN stack' = Push(SetTop(stack, [f EXCEPT !.pc = "return"]), eval) /\ UNCHANGED exc
                ELSE IF f.order = 2 THEN stack' = Push(SetTop(stack, [f EXCEPT !.pc = "second"]), eval) /\ UNCHANGED exc
                ELSE exc' = "ValueError" /\ UNCHANGED stack
           ELSE IF f.pc = "second"
           THEN stack' = Push(SetTop(stack, [f EXCEPT !.pc = "return"]), eval) /\ UNCHANGED exc
           ELSE stack' = Pop(stack) /\ UNCHANGED exc
    /\ UNCHANGED <<ctx, node, obj, binding, func, conf, last, device>>

\* ----------------------------------------------------------- _pd_analytic
\* lines 813-819: parameter p of object x replaced by a temporary Variable
\* with index n, otherwise identical with the original
Substitute(h, x, p, n) == [h EXCEPT ![x].params[p] = [h[x].params[p] EXCEPT !.idx = n]]

\* line 890: the original parameter put back
Restore(h, x, p, orig) == [h EXCEPT ![x].params[p] = orig]

\* op.grad_recipe[p_idx] of an operation of class cls, as <<multiplier,
\* shift>>, or <<>> for None.  The shifts are in units of pi/8 and the
\* multipliers in units of 1/2: Displacement stands for the operations
\* that bring a recipe of their own for their first parameter.
grad_recipe(cls, p) == IF cls = "Displacement" /\ p = 1 THEN <<5, 2>> ELSE <<>>

\* variant of the multiplier that leaves out the scale of the parameter
MultiplierUnscaled(recipe, mult) == IF recipe = <<>> THEN 1 ELSE recipe[1]

\* lines 822-824: multiplier = (0.5 or recipe[0]) * orig.mult
Multiplier(recipe, mult) == (IF recipe = <<>> THEN 1 ELSE recipe[1]) * mult

\* lines 827-828: shift = (pi/2 or recipe[1]) / orig.mult
Shift(recipe, mult) == (IF recipe = <<>> THEN 4 ELSE recipe[2]) \div mult

\* the use site the loop of line 808 is at: <<o_idx, p_idx>>, counted from 0
Site(nd, f) == nd.variable_ops[f.idx][f.i]

\* lines 808-834: the next use site of the slot, or the return of line 892
PdAnalyticSite ==
    /\ Running("_pd_analytic", "start")
    /\ LET f == Top
           nd == node[f.self]
           sites == IF f.idx \in DOMAIN nd.variable_ops THEN nd.variable_ops[f.idx] ELSE <<>>
       IN  IF f.i > Len(sites)
           THEN Install(obj, node, Pop(stack)) /\ UNCHANGED exc
           ELSE LET x == nd.ops[Site(nd, f)[1] + 1]
                    p == Site(nd, f)[2] + 1
                    orig == obj[x].params[p]
                    g == [f EXCEPT !.op = x, !.orig = orig]
                IN  IF orig.idx # f.idx
                    THEN exc' = "AssertionError" /\ UNCHANGED <<obj, node, stack>>
                    ELSE /\ UNCHANGED exc
                         /\ IF ~f.force_order2 /\ obj[x].grad_method # "A2"
                            THEN Install(Substitute(obj, x, p, nd.num_variables), node,
                                         Push(SetTop(stack, [g EXCEPT !.pc = "y1"]),
                                              [Frame("evaluate", f.self, f.nargs + 1, f.kw) EXCEPT
                                                   !.shift = Shift(grad_recipe(obj[x].cls, p), orig.mult)]))
                            ELSE Install(Substitute(obj, x, p, nd.num_variables), node,
                                         SetTop(stack, [g EXCEPT !.pc = "order2"]))
    /\ UNCHANGED <<ctx, binding, func, conf, last, device>>

\* line 838: the second shifted evaluation
PdAnalyticSecond ==
    /\ Running("_pd_analytic", "y1")
    /\ stack' = Push(SetTop(stack, [Top EXCEPT !.pc = "restore"]),
                     [Frame("evaluate", Top.self, Top.nargs + 1, Top.kw) EXCEPT
                          !.shift = 0 - Shift(grad_recipe(obj[Top.op].cls, Site(node[Top.self], Top)[2] + 1),
                                              Top.orig.mult)])
    /\ UNCHANGED <<ctx, node, obj, binding, exc, func, conf, last, device>>

\* evaluate_obs, lines 611-622, on the transformed observables of line 884:
\* one PolyXP expectation per returned observable
EvaluateObsOutcomes(h, nd, dev, free) ==
    IF dev # Desc("PolyXP").dev THEN {"DeviceError"}
    ELSE ExecuteOutcomes(h, dev, nd.queue, <<>>, free)

\* lines 841-887: the order-2 method
PdAnalyticOrder2 ==
    /\ Running("_pd_analytic", "order2")
    /\ LET f == Top
           nd == node[f.self]
       IN  /\ binding' = [free |-> f.nargs + 1, kw |-> IF f.kw = NoKw THEN nd.keyword_defaults ELSE f.kw,
                          shift |-> 0]
           /\ \E e \in (IF Resolvable(obj, f.op, f.nargs + 1)
                        THEN EvaluateObsOutcomes(obj, nd, conf[f.self].device, f.nargs + 1)
                        ELSE {"IndexError"}) :
                /\ exc' = e
                /\ stack' = IF e = NoExc THEN Counted(SetTop(stack, [f EXCEPT !.pc = "restore"]), f.self) ELSE stack
    /\ UNCHANGED <<ctx, node, obj, func, conf, last, device>>

\* line 839 (pd += (y2-y1) * multiplier) or line 887 (pd += temp) for the
\* use site the loop is at: the term added to pd.  ys holds y2 and y1, the
\* values at the two shifted points in the order they were computed, or
\* nothing on the order-2 path.
Term(h, nd, f) ==
    [site |-> Site(nd, f), ys |-> f.ys,
     multiplier |-> Multiplier(grad_recipe(h[f.op].cls, Site(nd, f)[2] + 1), f.orig.mult)]

\* lines 839 / 887 and 889-890: the term is added, the original parameter
\* restored, then the next use site
PdAnalyticRestore ==
    /\ Running("_pd_analytic", "restore")
    /\ LET f == Top
           p == Site(node[f.self], f)[2] + 1
       IN  Install(Restore(obj, f.op, p, f.orig), node,
                   SetTop(stack, [f EXCEPT !.pc = "start", !.i = @ + 1, !.op = 0, !.orig = NoParam,
                                           !.pd = Append(@, Term(obj, node[f.self], f)), !.ys = <<>>, !.reads = <<>>]))
    /\ UNCHANGED <<ctx, binding, exc, func, conf, last, device>>

\* ------------------------------------------------------- _pd_analytic_var
\* copy.deepcopy of the objects q: the heap with the copies, and the copies
RECURSIVE DeepCopy(_, _)
DeepCopy(h, q) ==
    IF q = <<>> THEN [h |-> h, ids |-> <<>>]
    ELSE LET x == NewId(h)
             r == DeepCopy(h @@ (x :> h[Head(q)]), Tail(q))
         IN  [h |-> r.h, ids |-> <<x>> \o r.ids]

\* line 906
PdAnalyticVarStart ==
    /\ Running("_pd_analytic_var", "start")
    /\ LET c == DeepCopy(obj, node[Top.self].ev)
       IN  Install(c.h, node, SetTop(stack, [Top EXCEPT !.pc = "loop", !.i = 1, !.old_ev = c.ids]))
    /\ UNCHANGED <<ctx, binding, exc, func, conf, last, device>>

\* lines 930-939 and 952: whether the variance of observable x has <A^2>
\* differentiated: a Hermitian whose matrix does not square to the
\* identity on a qubit tape, every observable on a CV tape
Squared(h, type, x) == IF type = "qubit" THEN h[x].cls = "Hermitian" /\ ~Desc(h[x].cls).inv ELSE TRUE

\* lines 912-979: one returned observable; a variance becomes an expectation
\* and, unless the observable is involutory, is swapped for its square
\* while <A^2> is differentiated.  pdA2 is 0 (line 928) or the number of the
\* observable whose swap produced the array it holds (lines 947, 976).
PdAnalyticVarLoop ==
    /\ Running("_pd_analytic_var", "loop")
    /\ LET f == Top
           n == f.self
           nd == node[n]
           skip == [f EXCEPT !.i = @ + 1]
       IN  IF f.i > Len(nd.ev)
           THEN stack' = SetTop(stack, [f EXCEPT !.pc = "cache"]) /\ UNCHANGED <<obj, node, exc>>
           ELSE
           LET e == nd.ev[f.i]
               h1 == [obj EXCEPT ![e].return_type = "Expectation"]
               c == DeepCopy(h1, <<e>>)
               sq == NewId(c.h)
               swap(cls, force) ==
                   Install(c.h @@ (sq :> NewOp(cls, h1[e].wires[1], <<Number("sq")>>, "Expectation")),
                           [node EXCEPT ![n].ev[f.i] = sq],
                           Push(SetTop(stack, [f EXCEPT !.pc = "unswap", !.old = c.ids[1], !.pdA2 = f.i]),
                                [Frame("_pd_analytic", n, f.nargs, f.kw) EXCEPT
                                     !.idx = f.idx, !.force_order2 = force]))
           IN  IF obj[e].return_type # "Variance"
               THEN stack' = SetTop(stack, skip) /\ UNCHANGED <<obj, node, exc>>
               ELSE IF nd.type = "unset"
               THEN exc' = "AttributeError" /\ Install(h1, node, stack)
               ELSE /\ UNCHANGED exc
                    /\ IF nd.type = "qubit"
                       THEN IF obj[e].cls = "Hermitian" /\ ~Desc(obj[e].cls).inv
                            THEN swap("Hermitian", FALSE)
                            ELSE Install(h1, node, SetTop(stack, [skip EXCEPT !.pdA2 = 0]))
                       ELSE swap("PolyXP", TRUE)
    /\ UNCHANGED <<ctx, binding, func, conf, last, device>>

\* lines 950 and 979: restore the original observable
PdAnalyticVarUnswap ==
    /\ Running("_pd_analytic_var", "unswap")
    /\ LET f == Top
       IN  Install(obj, [node EXCEPT ![f.self].ev[f.i] = f.old],
                   SetTop(stack, [f EXCEPT !.pc = "loop", !.i = @ + 1, !.old = 0]))
    /\ UNCHANGED <<ctx, binding, exc, func, conf, last, device>>

\* variant of line 988 that leaves the cache setting c as it is
CacheKept(c) == c

\* line 988: self.cache = True, whatever the setting c was
CacheForced(c) == TRUE

\* lines 981-991: caching forced on, then the circuit value at the
\* original parameters
PdAnalyticVarCache ==
    /\ Running("_pd_analytic_var", "cache")
    /\ LET f == Top
       IN  /\ node' = [node EXCEPT ![f.self].cache = CacheForced(@)]
           /\ stack' = Push(SetTop(stack, [f EXCEPT !.pc = "pdA", !.cache = node[f.self].cache]),
                            Frame("evaluate", f.self, f.nargs, f.kw))
    /\ UNCHANGED <<ctx, obj, binding, exc, func, conf, last, device>>

\* line 993: the gradient with every output taken as an expectation
PdAnalyticVarGradient ==
    /\ Running("_pd_analytic_var", "pdA")
    /\ stack' = Push(SetTop(stack, [Top EXCEPT !.pc = "finish"]),
                     [Frame("_pd_analytic", Top.self, Top.nargs, Top.kw) EXCEPT !.idx = Top.idx])
    /\ UNCHANGED <<ctx, node, obj, binding, exc, func, conf, last, device>>

\* lines 995-1002: restore the return queue and the cache setting
PdAnalyticVarFinish ==
    /\ Running("_pd_analytic_var", "finish")
    /\ LET f == Top
       IN  Install(obj, [node EXCEPT ![f.self] = [@ EXCEPT !.ev = f.old_ev, !.cache = f.cache]], Pop(stack))
    /\ UNCHANGED <<ctx, binding, exc, func, conf, last, device>>

\* the explicit values of which a caller passes: a repeated slot, the second
\* slot alone, an index no call has a slot for, and the empty list
WhichChoices == {<<0, 0>>, <<1>>, <<MaxArgs>>, <<>>}

\* a method argument that is none of 'A', 'F', 'B'
UnknownMethod == "C"

Next ==
    \/ \E nargs \in 1..MaxArgs, kw \in {NoKw, "v1"} : CallEvaluate("qn1", nargs, kw)
    \/ CallEvaluate("qn2", 1, NoKw)
    \/ \E nargs \in 1..MaxArgs, method \in {"A", "F", "B"}, order \in {1, 2} :
           CallJacobian("qn1", nargs, NoKw, TRUE, <<>>, method, order)
    \/ \E nargs \in 1..MaxArgs, which \in WhichChoices, method \in {"A", "F", "B"} :
           CallJacobian("qn1", nargs, NoKw, FALSE, which, method, 1)
    \/ \E nargs \in 1..MaxArgs : CallJacobian("qn1", nargs, NoKw, TRUE, <<>>, UnknownMethod, 1)
    \/ \E nargs \in 1..MaxArgs : CallJacobian("qn1", nargs, "v1", TRUE, <<>>, "B", 1)
    \/ EvaluateStart
    \/ ConstructEnter
    \/ BuilderOp
    \/ BuilderCall
    \/ BuilderRaise
    \/ ConstructFinish
    \/ EvaluateExecute
    \/ Unwind
    \/ JacobianStart
    \/ JacobianCheck
    \/ JacobianVariances
    \/ JacobianLoop
    \/ PdFiniteDiff
    \/ PdAnalyticSite
    \/ PdAnalyticSecond
    \/ PdAnalyticOrder2
    \/ PdAnalyticRestore
    \/ PdAnalyticVarStart
    \/ PdAnalyticVarLoop
    \/ PdAnalyticVarUnswap
    \/ PdAnalyticVarCache
    \/ PdAnalyticVarGradient
    \/ PdAnalyticVarFinish

Spec == Init /\ [][Next]_vars

\* tracing and evaluation only
NextTrace ==
    \/ \E nargs \in 1..MaxArgs, kw \in {NoKw, "v1"} : CallEvaluate("qn1", nargs, kw)
    \/ CallEvaluate("qn2", 1, NoKw)
    \/ EvaluateStart
    \/ ConstructEnter
    \/ BuilderOp
    \/ BuilderCall
    \/ BuilderRaise
    \/ ConstructFinish
    \/ EvaluateExecute
    \/ Unwind

SpecTrace == InitTrace /\ [][NextTrace]_vars

\* ------------------------------------------------ Device.execute by steps
\* variant of the measurement in which every observable is measured as an
\* expectation value
MeasurementAsExpval(rt) == "expval"

\* _device.py lines 225-232: the method that measures an observable of
\* return type rt
Measurement(rt) == IF rt = "Expectation" THEN "expval" ELSE IF rt = "Variance" THEN "var" ELSE "sample"

\* device d after one more event
Logged(d, e, i) == [d EXCEPT !.log = Append(@, Event(e, i))]

\* the frame of Device.execute(self.queue, observables, ...) called by node
\* n under a binding of free positional values
Execute(n, free, kw, observables) == [Frame("execute", n, free, kw) EXCEPT !.locals = observables]

\* lines 557-596 of evaluate: binding, reset, the checks, and the call of
\* device.execute
EvaluateDevice ==
    /\ Running("evaluate", "bind")
    /\ LET f == Top
           n == f.self
           nd == node[n]
       IN  /\ binding' = [free |-> f.nargs, kw |-> IF f.kw = NoKw THEN nd.keyword_defaults ELSE f.kw, shift |-> f.shift]
           /\ device' = [device EXCEPT ![n] = Reset(@)]
           /\ IF ~MeasuredOnce(obj, nd.ev) \/ \E x \in Range(nd.ops) : ~check_op(obj, x)
              THEN exc' = "QuantumFunctionError" /\ UNCHANGED <<obj, node, stack>>
              ELSE /\ UNCHANGED exc
                   /\ Install(obj, node, Push(SetTop(stack, [f EXCEPT !.pc = "convert"]),
                                              Execute(n, f.nargs, f.kw, nd.ev)))
    /\ UNCHANGED <<ctx, func, conf, last>>

\* line 597 of evaluate: the conversion of what the device returned
EvaluateConvert ==
    /\ Running("evaluate", "convert")
    /\ LET nd == node[Top.self]
           e == IF nd.output_conversion = "unset" THEN "AttributeError"
                ELSE IF Converted(nd.output_conversion, Len(nd.ev)).kind = "TypeError" THEN "TypeError"
                ELSE NoExc
       IN  /\ exc' = e
           /\ IF e = NoExc THEN Leaving(NoExc) /\ Install(obj, node, Yield(Counted(Pop(stack), Top.self), Top.shift))
              ELSE UNCHANGED <<obj, node, stack, last>>
    /\ UNCHANGED <<ctx, binding, func, conf, device>>

\* lines 876-881: q = ex.heisenberg_obs(w) and qp = q @ Z of an observable
\* of class cls, which stands for itself
heisenberg_obs(cls) == IF cls = "PolyXP" THEN "qp(PolyXP)" ELSE IF cls = "X" THEN "qp(X)" ELSE "qp"

\* lines 867-884: obs = list(map(tr_obs, self.ev)), one transformed
\* observable, an expectation of PolyXP on all wires, for each returned
\* observable from the i-th on
RECURSIVE tr_obs(_, _, _)
tr_obs(h, ev, i) ==
    IF i > Len(ev) THEN [h |-> h, ids |-> <<>>]
    ELSE LET x == NewId(h)
             ex == [NewOp("PolyXP", 0, <<Number(heisenberg_obs(h[ev[i]].cls))>>, "Expectation") EXCEPT
                        !.wires = [w \in 1..num_wires |-> w - 1]]
             r == tr_obs(h @@ (x :> ex), ev, i + 1)
         IN  [h |-> r.h, ids |-> <<x>> \o r.ids]

\* op.heisenberg_tr(w, inverse) of the operation at position o of ops reads
\* the parameters of the operation under the binding b: what is read, and
\* under which shift of the temporary slot
heisenberg_tr(o, inverse, b) == [o |-> o, inverse |-> inverse, shift |-> b.shift]

\* lines 858-862: for every later non-observable operation BB, from the
\* i-th on, BB.heisenberg_tr(w) and BB.heisenberg_tr(w, inverse=True)
RECURSIVE Conjugation(_, _, _, _, _)
Conjugation(h, ops, o, i, b) ==
    IF i > Len(ops) THEN <<>>
    ELSE (IF i > o /\ ~Desc(h[ops[i]].cls).obs
          THEN <<heisenberg_tr(i, FALSE, b), heisenberg_tr(i, TRUE, b)>>
          ELSE <<>>) \o Conjugation(h, ops, o, i + 1, b)

\* variant that appends the unshifted value whatever the shift
ReboundUnshifted(b, nargs, shift) == [b EXCEPT !.free = nargs + 1, !.shift = 0]

\* the binding after Variable.free_param_values = np.r_[params, v], where v
\* is the value of the slot shifted by shift: kwarg_values stays
Rebound(b, nargs, shift) == [b EXCEPT !.free = nargs + 1, !.shift = shift]

\* the position in ops of the operation the loop of line 808 is at
OpIndex(nd, f) == Site(nd, f)[1] + 1

\* the shift of the use site the loop is at, lines 822-828
SiteShift(h, nd, f) == Shift(grad_recipe(h[f.op].cls, Site(nd, f)[2] + 1), f.orig.mult)

\* lines 844-845: Z2 is read under the binding shifted up
HeisenbergPlus ==
    /\ Running("_pd_analytic", "order2")
    /\ LET f == Top
           nd == node[f.self]
       IN  /\ binding' = Rebound(binding, f.nargs, SiteShift(obj, nd, f))
           /\ IF ~Resolvable(obj, f.op, f.nargs + 1)
              THEN exc' = "IndexError" /\ UNCHANGED stack
              ELSE /\ UNCHANGED exc
                   /\ stack' = SetTop(stack, [f EXCEPT !.pc = "Z1",
                                   !.reads = Append(@, heisenberg_tr(OpIndex(nd, f), FALSE, binding'))])
    /\ UNCHANGED <<ctx, node, obj, func, conf, last, device>>

\* lines 846-847: Z1 is read under the binding shifted down
HeisenbergMinus ==
    /\ Running("_pd_analytic", "Z1")
    /\ LET f == Top
           nd == node[f.self]
       IN  /\ binding' = Rebound(binding, f.nargs, 0 - SiteShift(obj, nd, f))
           /\ stack' = SetTop(stack, [f EXCEPT !.pc = "Z0",
                           !.reads = Append(@, heisenberg_tr(OpIndex(nd, f), FALSE, binding'))])
    /\ UNCHANGED <<ctx, node, obj, exc, func, conf, last, device>>

\* lines 850-863: under the unshifted binding, the inverse of the
\* operation and the transformations of the operations after it
HeisenbergUnshifted ==
    /\ Running("_pd_analytic", "Z0")
    /\ LET f == Top
           nd == node[f.self]
           o == OpIndex(nd, f)
       IN  /\ binding' = Rebound(binding, f.nargs, 0)
           /\ IF \E i \in (o + 1)..Len(nd.ops) :
                     ~Desc(obj[nd.ops[i]].cls).obs /\ ~Resolvable(obj, nd.ops[i], f.nargs + 1)
              THEN exc' = "IndexError" /\ UNCHANGED stack
              ELSE /\ UNCHANGED exc
                   /\ stack' = SetTop(stack, [f EXCEPT !.pc = "obs",
                                   !.reads = @ \o <<heisenberg_tr(o, TRUE, binding')>>
                                               \o Conjugation(obj, nd.ops, o, 1, binding')])
    /\ UNCHANGED <<ctx, node, obj, func, conf, last, device>>

\* lines 884-886 of _pd_analytic and 611-621 of evaluate_obs: the
\* observables are transformed, the binding is set to the unshifted
\* parameters and the keyword values, the device is reset and asked to
\* execute
EvaluateObsDevice ==
    /\ Running("_pd_analytic", "obs")
    /\ LET f == Top
           n == f.self
           nd == node[n]
           obs == tr_obs(obj, nd.ev, 1)
       IN  /\ binding' = [free |-> f.nargs + 1, kw |-> IF f.kw = NoKw THEN nd.keyword_defaults ELSE f.kw,
                          shift |-> 0]
           /\ device' = [device EXCEPT ![n] = Reset(@)]
           /\ Install(obs.h, node, Push(SetTop(stack, [f EXCEPT !.pc = "restore"]),
                                        Execute(n, f.nargs + 1, f.kw, obs.ids)))
    /\ UNCHANGED <<ctx, exc, func, conf, last>>

\* _device.py lines 206-215: the validity check, the three attributes, and
\* pre_apply
ExecuteEnter ==
    /\ Running("execute", "start")
    /\ LET f == Top
           n == f.self
       IN  IF ~check_validity(obj, conf[n].device, node[n].queue, f.locals)
           THEN exc' = "DeviceError" /\ UNCHANGED <<stack, device>>
           ELSE /\ UNCHANGED exc
                /\ device' = [device EXCEPT ![n] = Logged([@ EXCEPT !.op_queue = "set", !.obs_queue = "set",
                                                                    !.parameters = "set"], "pre_apply", 0)]
                /\ stack' = SetTop(stack, [f EXCEPT !.pc = "apply", !.i = 1])
    /\ UNCHANGED <<ctx, node, obj, binding, func, conf, last>>

\* what reading the parameters of x and acting on them can end in: the
\* device may fail for reasons of its own
DeviceOutcomes(h, x, free) == IF Resolvable(h, x, free) THEN {NoExc, "DeviceError"} ELSE {"IndexError"}

\* _device.py lines 217-222: one gate of the queue is applied; after the
\* last one, post_apply and pre_measure
ExecuteApply ==
    /\ Running("execute", "apply")
    /\ LET f == Top
           n == f.self
           queue == node[n].queue
       IN  IF f.i <= Len(queue)
           THEN \E e \in DeviceOutcomes(obj, queue[f.i], f.nargs) :
                    /\ exc' = e
                    /\ IF e = NoExc
                       THEN /\ device' = [device EXCEPT ![n] = Logged(@, "apply", f.i)]
                            /\ stack' = SetTop(stack, [f EXCEPT !.i = @ + 1])
                       ELSE UNCHANGED <<stack, device>>
           ELSE /\ UNCHANGED exc
                /\ device' = [device EXCEPT ![n] = Logged(Logged(@, "post_apply", 0), "pre_measure", 0)]
                /\ stack' = SetTop(stack, [f EXCEPT !.pc = "measure", !.i = 1])
    /\ UNCHANGED <<ctx, node, obj, binding, func, conf, last>>

\* _device.py lines 224-249: one observable is measured by the method of its
\* return type and the result appended (an observable without a return type
\* is passed over; every sampled observable of a tape has num_samples);
\* after the last one, post_measure, the three attributes are unset and
\* the results returned
ExecuteMeasure ==
    /\ Running("execute", "measure")
    /\ LET f == Top
           n == f.self
           rt == obj[f.locals[f.i]].return_type
           next == [f EXCEPT !.i = @ + 1]
       IN  IF f.i <= Len(f.locals)
           THEN /\ UNCHANGED <<obj, node>>
                /\ IF rt = "None"
                   THEN stack' = SetTop(stack, next) /\ UNCHANGED <<exc, device>>
                   ELSE IF rt \notin {"Expectation", "Variance", "Sample"}
                   THEN exc' = "QuantumFunctionError" /\ UNCHANGED <<stack, device>>
                   ELSE \E e \in DeviceOutcomes(obj, f.locals[f.i], f.nargs) :
                            /\ exc' = e
                            /\ IF e = NoExc
                               THEN /\ device' = [device EXCEPT ![n] = Logged(@, Measurement(rt), f.i)]
                                    /\ stack' = SetTop(stack, [next EXCEPT !.results = Append(@, f.i)])
                               ELSE UNCHANGED <<stack, device>>
           ELSE /\ UNCHANGED exc
                /\ device' = [device EXCEPT ![n] = Logged([@ EXCEPT !.op_queue = "None", !.obs_queue = "None",
                                                                    !.parameters = "None"], "post_measure", 0)]
                /\ Install(obj, node, IF stack[Len(stack) - 1].fn = "_pd_analytic" THEN Counted(Pop(stack), n)
                                       ELSE Pop(stack))
    /\ UNCHANGED <<ctx, binding, func, conf, last>>

\* The circuits the device is run on, each with its device:
\*   an expectation and the variance of a non-involutory Hermitian;
\*   a Gaussian gate followed by a second-order and a first-order expectation;
\*   a CV gate and a CV observable on a qubit device;
\*   a CV observable alone on a qubit device;
\*   a gate without analytic gradient and one sampled observable;
\*   the same gate and one expectation;
\*   two Gaussian gates on the same slot, one of them on twice the argument,
\*   followed by a second-order and a first-order expectation.
DeviceFuncs ==
    {[device |-> "qubit", script |-> <<OpInstr("RX", 0, "a1", "None"), OpInstr("PauliZ", 0, "none", "Expectation"),
                                       OpInstr("Hermitian", 1, "const", "Variance"), ReturnInstr(FALSE, <<2, 3>>)>>],
     [device |-> "cv", script |-> <<OpInstr("Displacement", 0, "a1", "None"), OpInstr("PolyXP", 0, "const", "Expectation"),
                                    OpInstr("X", 1, "none", "Expectation"), ReturnInstr(FALSE, <<2, 3>>)>>],
     [device |-> "qubit", script |-> <<OpInstr("Displacement", 0, "a1", "None"), OpInstr("X", 0, "none", "Expectation"),
                                       ReturnInstr(TRUE, <<2>>)>>],
     [device |-> "qubit", script |-> <<OpInstr("X", 0, "none", "Expectation"), ReturnInstr(TRUE, <<1>>)>>],
     [device |-> "qubit", script |-> <<OpInstr("QubitUnitary", 0, "a1", "None"), OpInstr("PauliZ", 0, "none", "Sample"),
                                       ReturnInstr(TRUE, <<2>>)>>],
     [device |-> "qubit", script |-> <<OpInstr("QubitUnitary", 0, "a1", "None"), OpInstr("RX", 1, "a1", "None"),
                                       OpInstr("PauliZ", 0, "none", "Expectation"), ReturnInstr(TRUE, <<3>>)>>],
     [device |-> "cv", script |-> <<OpInstr("Displacement", 0, "2a1", "None"), OpInstr("Displacement", 1, "a1", "None"),
                                    OpInstr("PolyXP", 0, "const", "Expectation"), OpInstr("X", 1, "none", "Expectation"),
                                    ReturnInstr(FALSE, <<3, 4>>)>>]}

\* the nodes right after QNode.__init__: qn1 wraps one of DeviceFuncs
InitDevice ==
    /\ ctx = NoCtx
    /\ \E g \in DeviceFuncs, c \in BOOLEAN :
        /\ conf = [n \in Nodes |-> IF n = "qn1" THEN [cache |-> c, device |-> g.device]
                                   ELSE [cache |-> TRUE, device |-> "qubit"]]
        /\ func = [n \in Nodes |-> IF n = "qn1" THEN g.script ELSE PlainFunc]
    /\ node = [n \in Nodes |-> NewNode(conf[n].cache)]
    /\ obj = <<>>
    /\ binding = Unbound
    /\ stack = <<>>
    /\ exc = NoExc
    /\ last = NoCall
    /\ device = [n \in Nodes |-> NewDevice]

NextDevice ==
    \/ \E nargs \in 1..MaxArgs : CallEvaluate("qn1", nargs, NoKw)
    \/ \E nargs \in 1..MaxArgs : CallJacobian("qn1", nargs, NoKw, TRUE, <<>>, "B", 1)
    \/ EvaluateStart
    \/ ConstructEnter
    \/ BuilderOp
    \/ ConstructFinish
    \/ EvaluateDevice
    \/ EvaluateConvert
    \/ Unwind
    \/ JacobianStart
    \/ JacobianCheck
    \/ JacobianVariances
    \/ JacobianLoop
    \/ PdFiniteDiff
    \/ PdAnalyticSite
    \/ PdAnalyticSecond
    \/ HeisenbergPlus
    \/ HeisenbergMinus
    \/ HeisenbergUnshifted
    \/ EvaluateObsDevice
    \/ PdAnalyticRestore
    \/ PdAnalyticVarStart
    \/ PdAnalyticVarLoop
    \/ PdAnalyticVarUnswap
    \/ PdAnalyticVarCache
    \/ PdAnalyticVarGradient
    \/ PdAnalyticVarFinish
    \/ ExecuteEnter
    \/ ExecuteApply
    \/ ExecuteMeasure

\* evaluate and jacobian with Device.execute run step by step
SpecDevice == InitDevice /\ [][NextDevice]_vars

\* ------------------------------------------- evaluate, jacobian, evaluate
\* a parameter as the device reads it under a binding whose keyword value is
\* kw: a named Variable reads kwarg_values, a positional Variable reads
\* free_param_values at its index, a number is itself
ResolvedParam(p, kw) == IF p.var /\ p.name # "" THEN Number(kw) ELSE p

\* what line 596 hands to the device for node nd under that binding: the
\* gates and the observables with their wires, resolved parameters and
\* return types
Handed(h, nd, kw) ==
    LET resolved(q) == [i \in 1..Len(q) |->
                          [Content(h, q)[i] EXCEPT !.params = [j \in 1..Len(@) |-> ResolvedParam(@[j], kw)]]]
    IN  <<resolved(nd.queue), resolved(nd.ev)>>

\* a caller evaluates a new node; last remembers the arguments
CallEvaluateFirst(n, nargs, kw) ==
    /\ stack = <<>>
    /\ last = NoCall
    /\ node[n].num_variables = NoneVars
    /\ stack' = <<Frame("evaluate", n, nargs, kw)>>
    /\ exc' = NoExc
    /\ last' = [NoCall EXCEPT !.fn = "evaluate", !.self = n, !.first = <<nargs, kw>>]
    /\ UNCHANGED <<ctx, node, obj, binding, func, conf, device>>

\* the evaluation has returned; the caller asks for the jacobian.  The frame
\* remembers what the evaluation handed to the device: the tape and the
\* binding are still those of its line 596.
CallJacobianBetween(nargs, kw, method) ==
    /\ stack = <<>>
    /\ exc = NoExc
    /\ last.fn = "evaluate"
    /\ stack' = <<[Frame("jacobian", last.self, nargs, kw) EXCEPT
                      !.all = TRUE, !.method = method,
                      !.first = last.first \o <<Handed(obj, node[last.self], binding.kw)>>]>>
    /\ last' = NoCall
    /\ UNCHANGED <<ctx, node, obj, binding, exc, func, conf, device>>

\* jacobian has returned normally; the caller repeats the evaluation
CallEvaluateAgain ==
    /\ stack = <<>>
    /\ last.fn = "jacobian"
    /\ last.exc = NoExc
    /\ Len(last.first) = 3
    /\ stack' = <<[Frame("evaluate", last.self, last.first[1], last.first[2]) EXCEPT !.first = last.first]>>
    /\ last' = NoCall
    /\ UNCHANGED <<ctx, node, obj, binding, exc, func, conf, device>>

NextTwice ==
    \/ \E nargs \in 1..MaxArgs, kw \in {NoKw, "v1"} : CallEvaluateFirst("qn1", nargs, kw)
    \/ \E nargs \in 1..MaxArgs, kw \in {NoKw, "v1"}, method \in {"A", "F", "B"} :
           CallJacobianBetween(nargs, kw, method)
    \/ CallEvaluateAgain
    \/ EvaluateStart
    \/ ConstructEnter
    \/ BuilderOp
    \/ BuilderCall
    \/ BuilderRaise
    \/ ConstructFinish
    \/ EvaluateExecute
    \/ Unwind
    \/ JacobianStart
    \/ JacobianCheck
    \/ JacobianVariances
    \/ JacobianLoop
    \/ PdFiniteDiff
    \/ PdAnalyticSite
    \/ PdAnalyticSecond
    \/ PdAnalyticOrder2
    \/ PdAnalyticRestore
    \/ PdAnalyticVarStart
    \/ PdAnalyticVarLoop
    \/ PdAnalyticVarUnswap
    \/ PdAnalyticVarCache
    \/ PdAnalyticVarGradient
    \/ PdAnalyticVarFinish

\* one evaluation, one jacobian, and the evaluation again
SpecTwice == Init /\ [][NextTwice]_vars

\* ------------------------------------------------------------- properties
\* the tape of node n without identities and parameters: class, wires and
\* return type of every entry of queue, ev and ops
Measured(h, q) ==
    [i \in 1..Len(q) |-> [cls |-> h[q[i]].cls, wires |-> h[q[i]].wires, return_type |-> h[q[i]].return_type]]
MeasuredTape(h, nd) == <<Measured(h, nd.queue), Measured(h, nd.ev), Measured(h, nd.ops)>>
SnapMeasured(snap) ==
    [k \in 1..Len(snap) |->
        [i \in 1..Len(snap[k]) |-> [cls |-> snap[k][i].cls, wires |-> snap[k][i].wires,
                                    return_type |-> snap[k][i].return_type]]]

\* a jacobian call made from the top level has just finished
JacobianDone == stack = <<>> /\ last.fn = "jacobian"

\* C1: after any jacobian call has finished, by return or by exception,
\* every parameter of every operation of the tape is the slot the operation
\* was constructed with; no temporary slot is left installed.
C1_ParamsRestored ==
    JacobianDone => \A x \in Range(node[last.self].ops) : obj[x].params = obj[x].params0

\* C2: the context slot is held only while a construct call of the holder
\* is running its quantum function; it is empty between top-level calls, and
\* a construct called from the top level finds it empty.
C2_ContextReleased ==
    /\ stack = <<>> => ctx = NoCtx
    /\ ctx # NoCtx => \E i \in 1..Len(stack) :
                          stack[i].fn = "construct" /\ stack[i].self = ctx /\ stack[i].pc = "func"
    /\ (Len(stack) = 2 /\ stack[2].fn = "construct" /\ stack[2].pc = "start") => (ctx = NoCtx /\ exc = NoExc)

\* the quantum function raised, construct has been left and the exception is
\* on its way through the evaluate call that started at the top level
C2_Witness == Len(stack) = 1 /\ Top.fn = "evaluate" /\ exc = "BuilderError" /\ ctx = NoCtx

\* C3: a construct entered while the context slot is occupied raises
\* QuantumFunctionError, runs no step of the quantum function, and leaves the
\* slot pointing at its holder.
C3_ReentryRejected ==
    [][(Running("construct", "start") /\ ctx # NoCtx) =>
           /\ exc' = "QuantumFunctionError"
           /\ ctx' = ctx
           /\ func' = func
           /\ Len(stack') = Len(stack)
           /\ stack'[Len(stack')].fn = "construct" /\ stack'[Len(stack')].pc = "start"]_vars

\* a construct has just been rejected while another call holds the slot
C3_Witness ==
    /\ stack # <<>> /\ Top.fn = "construct" /\ Top.pc = "start"
    /\ exc = "QuantumFunctionError" /\ ctx # NoCtx

\* the call that started at the top level is on a node that had a tape and
\* has decided about tracing (a construct it called has entered the context)
Decided ==
    /\ stack # <<>> /\ stack[1].fn \in {"evaluate", "jacobian"}
    /\ stack[1].pc # "start" /\ stack[1].had_ops
    /\ ~(Len(stack) = 2 /\ stack[2].fn = "construct" /\ stack[2].pc = "start")

C5_CachedTapeReused ==
    [][\A n \in Nodes :
           (conf[n].cache /\ node[n].ops # <<>>) =>
               /\ ~(ctx # n /\ ctx' = n)
               /\ func'[n] = func[n]
               /\ (stack # <<>> /\ stack[1].fn = "evaluate") =>
                      TapeContent(obj', node'[n]) = TapeContent(obj, node[n])]_vars

\* an evaluate call passes a new keyword value to a cached node whose tape
\* holds a keyword slot, and is about to execute without having traced
C5_Witness ==
    /\ Len(stack) = 1 /\ exc = NoExc /\ Top.fn = "evaluate" /\ Top.pc = "bind"
    /\ conf[Top.self].cache /\ Top.had_ops /\ ~Top.constructs
    /\ Top.kw = "v1" /\ binding.kw = KwDefault
    /\ \E x \in Range(node[Top.self].ops) :
           \E j \in 1..Len(obj[x].params) : obj[x].params[j].var /\ obj[x].params[j].name = "kw"

\* C6: after any jacobian call has finished, by return or by exception, the
\* tape is as the call found it: queue, ev and ops hold entries of the same
\* classes with the same return types, and ops is queue followed by exactly
\* the entries of ev.
C6_TapeRestored ==
    (JacobianDone /\ last.snap # <<>>) =>
        /\ MeasuredTape(obj, node[last.self]) = SnapMeasured(last.snap)
        /\ node[last.self].ops = node[last.self].queue \o node[last.self].ev

\* C7: after any jacobian call has finished, by return or by exception, the
\* cache setting of the node is the one before the call, and a node created
\* with cache=False is not in cached mode between calls.
C7_CacheRestored ==
    /\ JacobianDone => node[last.self].cache = last.cache0
    /\ stack = <<>> => \A n \in Nodes : ~conf[n].cache => ~node[n].cache

\* the quantum function being traced takes a step: its instruction is
\* StepInstr
BuilderStep == Running("construct", "func") /\ Top.ip <= Len(func'[Top.self])
StepInstr == func'[Top.self][Top.ip]

\* C8: construct succeeds only if the returned value, as a sequence, is
\* exactly the recorded ev (same objects, same order); any other return
\* raises QuantumFunctionError; after a success ev is in the recorded order
\* and closes ops.
C8_ReturnMatchesRecorded ==
    [][(BuilderStep /\ StepInstr.k = "return") =>
           LET n == Top.self
               res == ReturnValue(StepInstr, Top.locals).items
           IN  /\ (exc' = NoExc) => (res = node[n].ev)
               /\ (res # node[n].ev) => (exc' = "QuantumFunctionError")
               /\ (exc' = NoExc) =>
                      /\ Measured(obj', node'[n].ev) = Measured(obj, node[n].ev)
                      /\ node'[n].ops = node'[n].queue \o node'[n].ev]_vars

\* construct has just rejected two recorded observables returned in reverse
C8_Witness ==
    /\ stack # <<>> /\ Top.fn = "construct" /\ Top.pc = "check" /\ exc = "QuantumFunctionError"
    /\ Top.ip <= Len(func[Top.self]) /\ func[Top.self][Top.ip].k = "return"
    /\ Len(node[Top.self].ev) = 2
    /\ ReturnValue(func[Top.self][Top.ip], Top.locals).items = Reverse(node[Top.self].ev)

\* C9: while tracing, the construction of an operation that is not an
\* observable after an observable with a return type has been recorded
\* raises QuantumFunctionError and leaves queue, ev and ops as they were.
C9_GateAfterMeasurement ==
    [][(/\ BuilderStep /\ StepInstr.k = "op" /\ ~Desc(StepInstr.cls).obs
        /\ ~(IsArg(StepInstr.par) /\ ArgIndex(StepInstr.par) >= Top.nargs)
        /\ node[ctx].ev # <<>>) =>
           /\ exc' = "QuantumFunctionError"
           /\ TapeContent(obj', node'[ctx]) = TapeContent(obj, node[ctx])]_vars

\* a gate constructed after a measured observable has just been rejected
C9_Witness ==
    /\ stack # <<>> /\ Top.fn = "construct" /\ Top.pc = "func" /\ exc = "QuantumFunctionError"
    /\ Len(Top.locals) = Top.ip - 1
    /\ Top.ip <= Len(func[Top.self]) /\ func[Top.self][Top.ip].k = "op"
    /\ ~Desc(func[Top.self][Top.ip].cls).obs
    /\ node[Top.self].ev # <<>>

\* C10: construct raises QuantumFunctionError unless the quantum function
\* returns a single observable or a non-empty sequence of observables only,
\* and then installs nothing as ops.
C10_ReturnShape ==
    [][(BuilderStep /\ StepInstr.k = "return") =>
           LET n == Top.self
               rv == ReturnValue(StepInstr, Top.locals)
               observable(v) == v # 0 /\ Desc(obj[v].cls).obs
               accepted == IF rv.single THEN Len(rv.items) = 1 /\ observable(rv.items[1])
                           ELSE rv.items # <<>> /\ \A i \in 1..Len(rv.items) : observable(rv.items[i])
           IN  ~accepted =>
                   /\ exc' = "QuantumFunctionError"
                   /\ Measured(obj', node'[n].ops) = Measured(obj, node[n].ops)
                   /\ node'[n].ops_len = node[n].ops_len]_vars

\* construct has just rejected an empty sequence; the node has no tape
C10_Witness ==
    /\ stack # <<>> /\ Top.fn = "construct" /\ Top.pc = "check" /\ exc = "QuantumFunctionError"
    /\ Top.ip <= Len(func[Top.self]) /\ func[Top.self][Top.ip].k = "return"
    /\ ~func[Top.self][Top.ip].single /\ func[Top.self][Top.ip].items = <<>>
    /\ node[Top.self].ops = <<>>

\* the step about to be taken calls device.execute on the tape of the node:
\* line 596 of evaluate after its checks, or line 621 of evaluate_obs on the
\* order-2 path of _pd_analytic
ExecutesNext ==
    \/ /\ Running("evaluate", "bind")
       /\ "QuantumFunctionError" \notin EvaluateOutcomes(obj, node[Top.self], conf[Top.self].device, Top.nargs)
    \/ /\ Running("_pd_analytic", "order2")
       /\ Resolvable(obj, Top.op, Top.nargs + 1)

\* an observable without a return type
Unmeasured(x) == Desc(obj[x].cls).obs /\ obj[x].return_type = "None"

\* C11: an observable without a return type that tracing recorded into the
\* queue is ignored at execution: the device does not apply it as a gate,
\* does not measure it, and the execution passes the validity check
\* whenever it would pass it without that entry.
C11_UnmeasuredIgnored ==
    (Running("evaluate", "bind") /\ ExecutesNext) =>
        LET nd == node[Top.self]
            dev == conf[Top.self].device
            gates == SelectSeq(nd.queue, LAMBDA x : ~Unmeasured(x))
        IN  /\ \A x \in Range(Applied(obj, dev, nd.queue, nd.ev)) : ~Unmeasured(x)
            /\ \A x \in Range(nd.ev) : ~Unmeasured(x)
            /\ check_validity(obj, dev, gates, nd.ev) => check_validity(obj, dev, nd.queue, nd.ev)

\* C12: whenever a tape is handed to device.execute, by evaluate or on a
\* jacobian path, no wire is measured by more than one of its returned
\* observables.
C12_MeasuredOnce ==
    ExecutesNext => MeasuredOnce(obj, node[Top.self].ev)

\* C13: whenever a tape is handed to device.execute, by evaluate or on a
\* jacobian path (the order-2 path through evaluate_obs included), every
\* wire of every operation and observable of the tape lies in
\* [0, num_wires).
C13_WiresInRange ==
    ExecutesNext =>
        \A x \in Range(node[Top.self].queue) \cup Range(node[Top.self].ev) :
            \A i \in 1..Len(obj[x].wires) : obj[x].wires[i] \in 0..(num_wires - 1)

\* whether the entries x of q, identities left out, are continuous-variable
Kinds(h, q) == {Desc(h[x].cls).cv : x \in {y \in Range(q) : h[y].cls # "Identity"}}

\* C14: when the quantum function returns, a construct that succeeds leaves
\* a tape whose operations other than Identity are all CV with type "CV",
\* or all not CV with type "qubit"; a function that recorded both kinds
\* makes construct raise QuantumFunctionError, and identities never do.
C14_OneKind ==
    [][(BuilderStep /\ StepInstr.k = "return") =>
           LET n == Top.self
               recorded == node[n].queue \o node[n].ev
               res == ReturnValue(StepInstr, Top.locals).items
           IN  /\ (exc' = NoExc) =>
                      \/ node'[n].type = "CV" /\ Kinds(obj', node'[n].ops) \subseteq {TRUE}
                      \/ node'[n].type = "qubit" /\ Kinds(obj', node'[n].ops) \subseteq {FALSE}
               /\ (Kinds(obj, recorded) = {TRUE, FALSE}) => (exc' = "QuantumFunctionError")
               /\ (res = node[n].ev /\ res # <<>> /\ Kinds(obj, recorded) # {TRUE, FALSE}) => (exc' = NoExc)]_vars

\* construct has just rejected a function that recorded a discrete and a
\* Gaussian gate
C14_Witness ==
    /\ stack # <<>> /\ Top.fn = "construct" /\ Top.pc = "check" /\ exc = "QuantumFunctionError"
    /\ Kinds(obj, node[Top.self].queue \o node[Top.self].ev) = {TRUE, FALSE}

\* parameter j of entry i of ops (both counted from 0) is a positional
\* Variable with index k
IsSlot(h, ops, i, j, k) ==
    /\ i + 1 \in 1..Len(ops)
    /\ j + 1 \in 1..Len(h[ops[i + 1]].params)
    /\ h[ops[i + 1]].params[j + 1].var
    /\ h[ops[i + 1]].params[j + 1].idx = k
    /\ h[ops[i + 1]].params[j + 1].name = ""

\* <<i, j>> comes before <<u, v>> in the tape
Before(a, b) == a[1] < b[1] \/ (a[1] = b[1] /\ a[2] < b[2])

\* C15: after a successful construct, variable_ops[k] lists <<i, j>> if and
\* only if parameter j of entry i of ops is a positional Variable with index
\* k; Variables of keyword arguments are not listed; every occurrence is
\* listed once, in the order of the tape.
C15_VariableOps ==
    [][(BuilderStep /\ StepInstr.k = "return" /\ exc' = NoExc) =>
           LET ops == node'[Top.self].ops
               vo == node'[Top.self].variable_ops
           IN  /\ \A k \in DOMAIN vo :
                      /\ vo[k] # <<>>
                      /\ \A t \in 1..Len(vo[k]) : IsSlot(obj', ops, vo[k][t][1], vo[k][t][2], k)
                      /\ \A t, u \in 1..Len(vo[k]) : t < u => Before(vo[k][t], vo[k][u])
               /\ \A i \in 1..Len(ops) : \A j \in 1..Len(obj'[ops[i]].params) :
                      LET q == obj'[ops[i]].params[j]
                      IN  (q.var /\ q.name = "") =>
                              (q.idx \in DOMAIN vo /\ <<i - 1, j - 1>> \in Range(vo[q.idx]))]_vars

\* construct has just succeeded on a tape that holds a keyword Variable
\* beside the positional one; only the positional one is listed
C15_Witness ==
    /\ Running("evaluate", "bind") /\ Top.constructs
    /\ \E x \in Range(node[Top.self].ops) :
           \E j \in 1..Len(obj[x].params) : obj[x].params[j].var /\ obj[x].params[j].name = "kw"
    /\ DOMAIN node[Top.self].variable_ops = {0}
    /\ node[Top.self].variable_ops[0] = <<<<0, 0>>>>

\* the operation at position o of ops (counted from 1) is analytically
\* differentiable: its class has the hint 'A' and, for a CV operation, every
\* operation after it has a Heisenberg representation and no observable
\* after it lacks one or is a second-order variance
AnalyticallyDifferentiable(h, ops, o) ==
    /\ Desc(h[ops[o]].cls).grad = "A"
    /\ Desc(h[ops[o]].cls).cv =>
           \A u \in (o + 1)..Len(ops) :
               IF Desc(h[ops[u]].cls).obs
               THEN /\ Desc(h[ops[u]].cls).ev_order # 0
                    /\ ~(Desc(h[ops[u]].cls).ev_order = 2 /\ h[ops[u]].return_type = "Variance")
               ELSE Desc(h[ops[u]].cls).heis

\* the positions in ops (counted from 1) of the operations that use slot k
Dependents(vo, k) == {vo[k][t][1] + 1 : t \in 1..Len(vo[k])}

\* C16: after a successful construct, grad_method_for_par[k] is None if and
\* only if some operation that uses slot k has the hint None, and 'A' if and
\* only if every operation that uses slot k is analytically differentiable;
\* otherwise it is 'F'.  This holds for every slot, also when several slots
\* or several parameters use the same operation.
C16_GradMethodForPar ==
    [][(BuilderStep /\ StepInstr.k = "return" /\ exc' = NoExc) =>
           LET ops == node'[Top.self].ops
               vo == node'[Top.self].variable_ops
               gm == node'[Top.self].grad_method_for_par
           IN  /\ DOMAIN gm = DOMAIN vo
               /\ \A k \in DOMAIN vo :
                      /\ gm[k] \in {"A", "F", "None"}
                      /\ (gm[k] = "None") <=> \E o \in Dependents(vo, k) : Desc(obj'[ops[o]].cls).grad = "None"
                      /\ (gm[k] = "A") <=>
                             \A o \in Dependents(vo, k) : AnalyticallyDifferentiable(obj', ops, o)]_vars

\* C17: the determination of the best method of an operation leaves the
\* hint of the operation as it was, so that determining it again gives the
\* same answer: the method selected for a slot is the one obtained from its
\* use sites on the tape as the quantum function recorded it, whichever
\* slots were processed before.
C17_DeterminationRepeatable ==
    [][(BuilderStep /\ StepInstr.k = "return" /\ exc' = NoExc) =>
           LET recorded == node[Top.self].queue \o node[Top.self].ev
               vo == node'[Top.self].variable_ops
               gm == node'[Top.self].grad_method_for_par
           IN  \A k \in DOMAIN vo :
                   gm[k] = BestOf([ms |-> [t \in 1..Len(vo[k]) |-> best_for_op(obj, recorded, vo[k][t][1] + 1).m],
                                   h |-> obj]).m]_vars

\* a jacobian call made from the top level has not passed its argument
\* checks and is not about to execute the tape of its node on the device
NoExecutionBeforeChecks ==
    (stack # <<>> /\ stack[1].fn = "jacobian" /\ stack[1].pc \in {"start", "check"}) =>
        ~(ExecutesNext /\ Top.self = stack[1].self)

\* the step is the argument check of jacobian and it raises e: no evaluation
\* is started, no column is computed and the tape is not touched
RaisesAtCheck(e) ==
    /\ exc' = e
    /\ Len(stack') = Len(stack)
    /\ stack'[Len(stack')].fn = "jacobian" /\ stack'[Len(stack')].pc = "check"
    /\ UNCHANGED <<node, obj>>

\* a returned observable of the tape is sampled
Sampled == \E i \in 1..Len(node[Top.self].ev) : obj[node[Top.self].ev[i]].return_type = "Sample"

\* a requested slot has the selected method 'F' or None
RequestsNonAnalytic ==
    \E k \in Range(Which(Top)) \cap DOMAIN node[Top.self].grad_method_for_par :
        node[Top.self].grad_method_for_par[k] \in {"F", "None"}

\* the arguments of the call are wrong: an unknown method, a repeated index
\* in which, or an index outside [0, num_variables)
BadArguments ==
    \/ Top.method \notin {"A", "F", "B"}
    \/ ~Top.all /\ Len(Top.which) # Cardinality(Range(Top.which))
    \/ ~Top.all /\ \E i \in 1..Len(Top.which) :
                       Top.which[i] < 0 \/ Top.which[i] >= node[Top.self].num_variables

\* C18, as stated: jacobian with method 'A' raises ValueError, without
\* computing a column or executing the tape, whenever a requested slot has
\* the selected method 'F' or None.
C18_AnalyticRejected ==
    [][/\ NoExecutionBeforeChecks
       /\ (Running("jacobian", "check") /\ Top.method = "A" /\ RequestsNonAnalytic) =>
              RaisesAtCheck("ValueError")]_vars

\* C18, as the code has it: the same, unless a returned observable of the
\* tape is sampled; then the call raises QuantumFunctionError instead, also
\* without computing a column or executing the tape.
C18_AnalyticRejectedUnlessSampled ==
    [][/\ NoExecutionBeforeChecks
       /\ (Running("jacobian", "check") /\ Top.method = "A" /\ RequestsNonAnalytic) =>
              RaisesAtCheck(IF Sampled THEN "QuantumFunctionError" ELSE "ValueError")]_vars

\* jacobian with method 'A' over all slots has just been rejected because of
\* slots whose method is 'F'
C18_Witness ==
    /\ Len(stack) = 1 /\ Top.fn = "jacobian" /\ Top.pc = "check" /\ exc = "ValueError"
    /\ Top.method = "A" /\ Top.all
    /\ \E k \in DOMAIN node[Top.self].grad_method_for_par : node[Top.self].grad_method_for_par[k] = "F"
    /\ \A k \in DOMAIN node[Top.self].grad_method_for_par : node[Top.self].grad_method_for_par[k] # "None"

\* C19, as stated: jacobian raises ValueError, without executing the tape,
\* when the method is not one of 'A', 'F', 'B', when which repeats an index,
\* or when which holds an index outside [0, num_variables).
C19_ArgumentsRejected ==
    [][/\ NoExecutionBeforeChecks
       /\ (Running("jacobian", "check") /\ BadArguments) => RaisesAtCheck("ValueError")]_vars

\* C19, as the code has it: the same, unless a returned observable of the
\* tape is sampled; then the call raises QuantumFunctionError instead, also
\* without executing the tape.
C19_ArgumentsRejectedUnlessSampled ==
    [][/\ NoExecutionBeforeChecks
       /\ (Running("jacobian", "check") /\ BadArguments) =>
              RaisesAtCheck(IF Sampled THEN "QuantumFunctionError" ELSE "ValueError")]_vars

\* jacobian has just rejected a repeated index of a slot that could be
\* differentiated by the requested method
C19_Witness ==
    /\ Len(stack) = 1 /\ Top.fn = "jacobian" /\ Top.pc = "check" /\ exc = "ValueError"
    /\ ~Top.all /\ Top.which = <<0, 0>> /\ Top.method = "F"
    /\ node[Top.self].num_variables >= 1
    /\ \A k \in DOMAIN node[Top.self].grad_method_for_par : node[Top.self].grad_method_for_par[k] = "A"

\* C20: jacobian raises QuantumFunctionError whenever a returned observable
\* of the tape is sampled, whatever the method and which, and before any
\* execution of the tape on the device.
C20_SampleRejected ==
    [][/\ NoExecutionBeforeChecks
       /\ (Running("jacobian", "check") /\ Sampled) => RaisesAtCheck("QuantumFunctionError")]_vars

\* jacobian has just rejected a tape with a sampled observable although
\* which repeats an index
C20_Witness ==
    /\ Len(stack) = 1 /\ Top.fn = "jacobian" /\ Top.pc = "check" /\ exc = "QuantumFunctionError"
    /\ Sampled /\ ~Top.all /\ Top.which = <<0, 0>>

\* ------------------------------------------------------- parameter binding
\* C30: the process-wide binding is established before every execution on
\* the device and cleared after it: once evaluate or jacobian has finished,
\* the binding no longer holds the values of that call.
C30_BindingCleared ==
    [][/\ ExecutesNext => binding'.free # NoneVars
       /\ (stack # <<>> /\ stack' = <<>>) => binding' = Unbound]_vars

\* ---------------------------------------------------- the jacobian matrix
\* the loop of jacobian is at a requested slot, the i-th of which
AtColumn == Running("jacobian", "loop") /\ Top.i <= Len(Top.which)

\* C21: for a requested slot that no operation of the tape depends on,
\* jacobian leaves the column as it was created (zero) and starts no shifted
\* evaluation: the step only moves on to the next requested slot, and the
\* tape, the heap and the binding the other columns are computed from are
\* what they are without it.
C21_UnusedSlotSkipped ==
    [][(AtColumn /\ Top.which[Top.i] \notin DOMAIN node[Top.self].variable_ops)
         => /\ stack' = SetTop(stack, [Top EXCEPT !.i = @ + 1])
            /\ UNCHANGED <<ctx, node, obj, binding, exc, func, conf>>]_vars

\* a call that requested a used and an unused slot has been through both
C21_Witness ==
    /\ Running("jacobian", "loop")
    /\ Len(stack) = 1
    /\ Top.i > Len(Top.which)
    /\ \E a, b \in 1..Len(Top.which) :
          /\ Top.which[a] \in DOMAIN node[Top.self].variable_ops
          /\ Top.which[b] \notin DOMAIN node[Top.self].variable_ops

\* jacobian is about to return the matrix
Returning == Running("jacobian", "loop") /\ Top.i > Len(Top.which)

\* C22: jacobian returns a matrix with output_dim rows and one column per
\* requested slot; with which=None the requested slots are exactly the
\* flattened positional parameters, and a keyword argument of the call
\* never contributes a column.
C22_MatrixShape ==
    Returning =>
        /\ Top.grad = <<node[Top.self].output_dim, Len(Top.which)>>
        /\ Top.all => Top.which = [i \in 1..Top.nargs |-> i - 1]

\* a call with which=None, two positional values and a keyword argument
\* returns two columns
C22_Witness ==
    Returning /\ Len(stack) = 1 /\ Top.all /\ Top.kw # NoKw /\ Top.nargs = 2 /\ Top.grad[2] = 2

\* ------------------------------------------------ gradients of variances
\* _pd_analytic_var is at line 1002, about to combine pdA2, evA and pdA
Combining == Running("_pd_analytic_var", "finish")

\* C23: for every returned observable i that is a variance the returned
\* entry is d<A_i^2> - 2 <A_i> d<A_i>, where the first term is the derivative
\* of the square of observable i itself, taken as zero when A_i squares to
\* the identity, for any number and any mix of variance and expectation
\* observables.  The first term is read from pdA2 at line 1002.
C23_VarianceRule ==
    Combining =>
        \A i \in 1..Len(Top.old_ev) :
            obj[Top.old_ev[i]].return_type = "Variance" =>
                Top.pdA2 = IF Squared(obj, node[Top.self].type, Top.old_ev[i]) THEN i ELSE 0

\* ---------------------------------------------------- keyword arguments
\* the keyword argument of the call behind frame f: the value passed, or the
\* default declared by the quantum function (lines 310-316, 559-560)
KeywordOf(f) == IF f.kw = NoKw THEN KwDefault ELSE f.kw

\* the parameters of the tape of nd that stand for the keyword argument, each
\* with the value the device reads under the binding of lines 575-576: a named
\* Variable reads kwarg_values, a number recorded at tracing time is itself
KeywordValuesRead(h, nd, f) ==
    {IF h[x].params[j].var THEN (IF f.kw = NoKw THEN nd.keyword_defaults ELSE f.kw) ELSE h[x].params[j].val :
        <<x, j>> \in {<<y, i>> \in Range(nd.queue \o nd.ev) \X (1..MaxArgs) :
                         /\ i <= Len(h[y].params)
                         /\ \/ h[y].params[i].var /\ h[y].params[i].name # ""
                            \/ ~h[y].params[i].var /\ h[y].params[i].val \in KwValues}}

\* C24: every device execution started by evaluate(args, **kwargs) uses, for
\* the keyword argument used as an operation parameter, the value passed in
\* that call (or the declared default), never a value from an earlier call,
\* with caching on and off and after any earlier calls.
C24_KeywordCurrent ==
    (Running("evaluate", "bind") /\ ExecutesNext)
        => KeywordValuesRead(obj, node[Top.self], Top) \subseteq {KeywordOf(Top)}

\* ------------------------------------------------------ shape of the output
\* the buffers of node nd are a tape that construct completed: line 388
\* installed ops = queue + ev and no later trace has emptied the buffers
Traced(nd) == nd.ops # <<>> /\ Len(nd.ops) = Len(nd.queue) + Len(nd.ev)

\* evaluate is about to return a value for a traced tape: its checks pass,
\* and the device and the conversion of line 597 can succeed
ReturnsValue ==
    /\ Running("evaluate", "bind")
    /\ Traced(node[Top.self])
    /\ NoExc \in EvaluateOutcomes(obj, node[Top.self], conf[Top.self].device, Top.nargs)

\* the return statement of the quantum function of node n
Returned(n) == func[n][Len(func[n])]

C25_SameExecution ==
    /\ (stack # <<>> /\ stack[1].fn = "evaluate" /\ Len(stack[1].first) = 3) => exc \in {NoExc, "DeviceError"}
    /\ (Running("evaluate", "bind") /\ Len(stack) = 1 /\ Len(Top.first) = 3) =>
          /\ EvaluateOutcomes(obj, node[Top.self], conf[Top.self].device, Top.nargs) \subseteq {NoExc, "DeviceError"}
          /\ Handed(obj, node[Top.self], IF Top.kw = NoKw THEN node[Top.self].keyword_defaults ELSE Top.kw)
                = Top.first[3]

\* ------------------------------------------------- execution on the device
\* the node has called device.execute and the call is about to start
Entering == Running("execute", "start")

\* C27: every device.execute call made by the node, from evaluate and from
\* evaluate_obs, is preceded by a device.reset() with no gate application
\* or measurement between the reset and the execute: at the entry of
\* execute the reset is all the device has done since.
C27_ResetBeforeExecute ==
    Entering => device[Top.self].log = <<Event("reset", 0)>>

\* execute is entered from evaluate_obs on a device that has already been
\* through the evaluation of the circuit value
C27_Witness ==
    /\ Entering
    /\ Len(stack) > 2
    /\ stack[Len(stack) - 1].fn = "_pd_analytic"
    /\ device[Top.self].log = <<Event("reset", 0)>>

\* the events of one complete execution of queue and observables, in the
\* order of _device.py lines 215-236
RECURSIVE Applications(_, _)
Applications(queue, i) ==
    IF i > Len(queue) THEN <<>> ELSE <<Event("apply", i)>> \o Applications(queue, i + 1)
RECURSIVE Measurements(_, _, _)
Measurements(h, observables, i) ==
    IF i > Len(observables) THEN <<>>
    ELSE <<Event(IF h[observables[i]].return_type = "Expectation" THEN "expval"
                 ELSE IF h[observables[i]].return_type = "Variance" THEN "var" ELSE "sample", i)>>
         \o Measurements(h, observables, i + 1)
Execution(h, queue, observables) ==
    <<Event("reset", 0), Event("pre_apply", 0)>> \o Applications(queue, 1)
    \o <<Event("post_apply", 0), Event("pre_measure", 0)>> \o Measurements(h, observables, 1)
    \o <<Event("post_measure", 0)>>

\* execute has measured every observable and is about to return the results
Measuring == Running("execute", "measure") /\ Top.i > Len(Top.locals)

\* C28: within one Device.execute, pre_apply runs first, then every gate is
\* applied in queue order, then post_apply and pre_measure, then every
\* observable is measured in the order given according to its return type,
\* then post_measure; no measurement happens before the last gate is
\* applied, and the i-th entry of the result corresponds to the i-th
\* observable.
C28_ExecutionOrder ==
    (stack # <<>> /\ Top.fn = "execute" /\ Top.pc # "start") =>
        LET whole == Execution(obj, node[Top.self].queue, Top.locals)
            log == device[Top.self].log
        IN  /\ Len(log) <= Len(whole)
            /\ log = SubSeq(whole, 1, Len(log))
            /\ Measuring => /\ log = SubSeq(whole, 1, Len(whole) - 1)
                            /\ Top.results = [i \in 1..Len(Top.locals) |-> i]

\* an execution of one gate and two observables, an expectation and a
\* variance, has measured both
C28_Witness ==
    /\ Measuring
    /\ Len(node[Top.self].queue) >= 1
    /\ Len(Top.locals) = 2
    /\ obj[Top.locals[1]].return_type = "Expectation"
    /\ obj[Top.locals[2]].return_type = "Variance"
    /\ Top.results = <<1, 2>>

\* C29: if any gate in the queue or any observable has a name the device
\* does not support, Device.execute raises DeviceError before pre_apply,
\* before any gate is applied and before any observable is measured, and
\* the device's op_queue, obs_queue and parameters remain unset: the step
\* raises and leaves the device as it was, which is with the three unset.
C29_UnsupportedRejected ==
    [][(Entering /\ ((\E x \in Range(node[Top.self].queue) :
                           ~(Desc(obj[x].cls).gate /\ Supports(conf[Top.self].device, obj[x].cls)))
                      \/ (\E y \in Range(Top.locals) :
                           ~(Desc(obj[y].cls).obs /\ Supports(conf[Top.self].device, obj[y].cls)))))
         => /\ exc' = "DeviceError"
            /\ device' = device
            /\ device'[Top.self].op_queue = "None"
            /\ device'[Top.self].obs_queue = "None"
            /\ device'[Top.self].parameters = "None"
            /\ UNCHANGED <<node, obj, stack>>]_vars

\* execute has raised DeviceError for a tape whose gates are supported and
\* whose observable is not
C29_Witness ==
    /\ stack # <<>> /\ Top.fn = "execute" /\ Top.pc = "start"
    /\ exc = "DeviceError"
    /\ \A x \in Range(node[Top.self].queue) : Supports(conf[Top.self].device, obj[x].cls)
    /\ \E x \in Range(Top.locals) : ~Supports(conf[Top.self].device, obj[x].cls)
    /\ device[Top.self].op_queue = "None"

\* ------------------------------------------ the queues outside of execute
\* _device.py lines 251-297: what reading op_queue, obs_queue or parameters
\* of device d gives, the value or ValueError when the attribute is None
Read(d, attr) == IF d[attr] = "None" THEN "ValueError" ELSE "value"

\* Device.execute is running on behalf of node n
Executing(n) == \E i \in 1..Len(stack) : stack[i].fn = "execute" /\ stack[i].self = n

\* C31: the device's op_queue, obs_queue and parameters can be read only
\* while execute is running: before the first execute, and after any
\* execute has finished by return or by exception, reading any of them
\* raises ValueError.
C31_QueuesOnlyInExecute ==
    \A n \in Nodes : ~Executing(n) =>
        \A attr \in {"op_queue", "obs_queue", "parameters"} : Read(device[n], attr) = "ValueError"

\* ------------------------------------------------- the method of one op
\* lines 509-511 run for every slot in turn (lines 410-411): the calls
\* best_for_op(o) in the order the code makes them, each with the position o
\* in ops, the hint the call finds on the operation, and what it returns
RECURSIVE Determinations(_, _, _, _)
DeterminationsFrom(r, hint, ops, sites, i) ==
    <<[o |-> sites[i][1] + 1, hint |-> hint, m |-> r.m]>> \o Determinations(r.h, ops, sites, i + 1)

Determinations(h, ops, sites, i) ==
    IF i > Len(sites) THEN <<>>
    ELSE DeterminationsFrom(best_for_op(h, ops, sites[i][1] + 1), h[ops[sites[i][1] + 1]].grad_method,
                            ops, sites, i)

\* the use sites of all slots in the order of the slots
SitesInOrder(vo, keys) == Flatten([t \in 1..Len(keys) |-> vo[keys[t]]])

\* C32: for a CV op whose descriptor hint is analytic, the per-op best
\* method is finite if any later non-observable entry of the tape lacks
\* supports_heisenberg, or any later observable has ev_order none, or any
\* later observable has ev_order 2 with return type variance; otherwise it
\* is analytic.  Later means every subsequent entry of the queue, whatever
\* wires it acts on.
C32_BestForOp ==
    [][(BuilderStep /\ StepInstr.k = "return" /\ exc' = NoExc) =>
           LET recorded == node[Top.self].queue \o node[Top.self].ev
               ds == Determinations(obj, recorded,
                                    SitesInOrder(node'[Top.self].variable_ops, KeysInOrder(obj, recorded)), 1)
           IN  \A t \in 1..Len(ds) :
                   (Desc(obj[recorded[ds[t].o]].cls).cv /\ Desc(obj[recorded[ds[t].o]].cls).grad = "A") =>
                       ds[t].m = IF AnalyticallyDifferentiable(obj, recorded, ds[t].o) THEN "A" ELSE "F"]_vars

\* --------------------------------------------------- the parameter shift
\* lines 831-832 and Variable.val: what a positional Variable p reads from
\* free_param_values = np.r_[params, params[idx] +- shift], a vector of
\* length free whose last entry is the shifted value
ResolvesTo(p, free) ==
    IF p.idx = free - 1 THEN <<"shifted">>
    ELSE IF p.idx < free - 1 THEN <<"params", p.idx>>
    ELSE <<"IndexError">>

\* frame i of the stack is one of the two shifted evaluations of lines
\* 837-838
ShiftedEvaluation(i) ==
    /\ i > 1 /\ i <= Len(stack)
    /\ stack[i].fn = "evaluate"
    /\ stack[i - 1].fn = "_pd_analytic"

\* C33: during each shifted evaluation of the parameter-shift rule for use
\* site (op, p) of slot k, only that one use site resolves to the shifted
\* value, through a temporary slot at index n = num_variables that keeps the
\* name and the mult of the original; every other use site of slot k and
\* every other slot resolves to its unshifted value, and the evaluation
\* with the extended parameter vector never retraces the tape, with caching
\* on or off.
C33_OnlyOneSiteShifted ==
    \A i \in 1..Len(stack) : ShiftedEvaluation(i) =>
        LET r == stack[i - 1]
            nd == node[r.self]
            p == Site(nd, r)[2] + 1
        IN  /\ obj[r.op].params[p] = [r.orig EXCEPT !.idx = nd.num_variables]
            /\ ResolvesTo(obj[r.op].params[p], stack[i].nargs) = <<"shifted">>
            /\ \A o \in 1..Len(nd.ops) : \A q \in 1..Len(obj[nd.ops[o]].params) :
                   LET v == obj[nd.ops[o]].params[q]
                   IN  (v.var /\ v.name = "" /\ ~(nd.ops[o] = r.op /\ q = p)) =>
                           ResolvesTo(v, stack[i].nargs) = <<"params", v.idx>>
            /\ i < Len(stack) => stack[i + 1].fn # "construct"
            /\ (i = Len(stack) /\ stack[i].pc = "start") => ~NeedsConstruct(nd, stack[i].nargs)

\* ------------------------------------------------ the number of executions
\* the requested columns whose slot some operation of the tape uses
UsedColumns(nd, which) == {i \in 1..Len(which) : which[i] \in DOMAIN nd.variable_ops}

PdReturning == Running("_pd_analytic", "start") /\ Top.idx \in DOMAIN node[Top.self].variable_ops
               /\ Top.i > Len(node[Top.self].variable_ops[Top.idx])

\* no use site of slot k is differentiated by the order-2 method
OrderOne(f, nd, k) ==
    /\ ~f.force_order2
    /\ \A t \in 1..Len(nd.variable_ops[k]) : obj[nd.ops[nd.variable_ops[k][t][1] + 1]].grad_method # "A2"

\* the use sites of the columns a jacobian call has computed
SitesOfUsed(nd, which) ==
    Flatten([i \in 1..Len(which) |-> IF which[i] \in DOMAIN nd.variable_ops THEN nd.variable_ops[which[i]] ELSE <<>>])

\* C35: with the order-1 analytic method, the column of slot k is the sum,
\* over every use site (op, p) in var_ops[k], of (y_plus - y_minus) * c *
\* mult, where (c, s) is the op's grad_recipe for p or (0.5, pi/2) when
\* there is none and the two evaluations are at the slot's value plus and
\* minus s/mult; the circuit is executed exactly twice per use site.  The
\* term of a use site lists the values the evaluations made for it
\* returned, and a jacobian call with method 'A' returns after two
\* executions per use site of its columns.
C35_ShiftRuleSum ==
    /\ (PdReturning /\ OrderOne(Top, node[Top.self], Top.idx)) =>
           LET nd == node[Top.self]
               sites == nd.variable_ops[Top.idx]
               param(t) == obj[nd.ops[sites[t][1] + 1]].params[sites[t][2] + 1]
               recipe(t) == grad_recipe(obj[nd.ops[sites[t][1] + 1]].cls, sites[t][2] + 1)
               c(t) == IF recipe(t) = <<>> THEN 1 ELSE recipe(t)[1]
               s(t) == IF recipe(t) = <<>> THEN 4 ELSE recipe(t)[2]
           IN  Top.pd = [t \in 1..Len(sites) |->
                            [site |-> sites[t],
                             ys |-> <<s(t) \div param(t).mult, 0 - (s(t) \div param(t).mult)>>,
                             multiplier |-> c(t) * param(t).mult]]
    /\ (Returning /\ Len(stack) = 1 /\ Top.method = "A" /\ ~Top.variances
        /\ \A i \in 1..Len(Top.which) :
               Top.which[i] \in DOMAIN node[Top.self].variable_ops =>
                   Top.mmap[Top.which[i]] = "A" /\ OrderOne(Top, node[Top.self], Top.which[i])) =>
           Top.executions = 2 * Len(SitesOfUsed(node[Top.self], Top.which))

\* the column of a slot used by two gates, one of them on twice the
\* argument, is about to be returned as the sum of two terms
C35_Witness ==
    /\ PdReturning /\ OrderOne(Top, node[Top.self], Top.idx)
    /\ Len(Top.pd) = 2
    /\ Top.pd[1].multiplier # Top.pd[2].multiplier
    /\ Top.pd[1].ys # Top.pd[2].ys

\* ------------------------------------------- no retrace under the variance rule
\* frame i of the stack is a _pd_analytic_var call that may have modified
\* self.ev (lines 923, 944, 973) and has not restored it (line 996)
VarianceRule(i) == stack[i].fn = "_pd_analytic_var" /\ stack[i].pc # "start"

\* C36: during the variance shift rule, from the first modification of the
\* returned-observable list (return type changed or observable swapped for
\* its square) until the list is restored, no construct call happens, for a
\* node created with cache=False as well as cache=True, so the modified
\* list is never overwritten by a retrace.
C36_NoRetraceInVarianceRule ==
    \A i \in 1..Len(stack) : VarianceRule(i) =>
        /\ \A j \in (i + 1)..Len(stack) : ~(stack[j].fn = "construct" /\ stack[j].self = stack[i].self)
        /\ (i < Len(stack) /\ Running("evaluate", "start") /\ Top.self = stack[i].self) =>
               ~NeedsConstruct(node[Top.self], Top.nargs)

\* a node created with cache=False is evaluated at the original parameters
\* (line 991), with as many arguments as it was traced with, while its
\* observable list holds a converted variance
C36_Witness ==
    /\ Len(stack) > 1 /\ VarianceRule(Len(stack) - 1) /\ stack[Len(stack) - 1].pc = "pdA"
    /\ Running("evaluate", "start")
    /\ ~conf[Top.self].cache
    /\ Top.nargs = node[Top.self].num_variables
    /\ \E e \in Range(node[Top.self].ev) : obj[e].rt0 = "Variance" /\ obj[e].return_type = "Expectation"

\* the positions in ops, after position o, of the operations that are not
\* observables
LaterGates(h, ops, o) == {i \in (o + 1)..Len(ops) : ~Desc(h[ops[i]].cls).obs}

\* the second-order path of _pd_analytic has read every transformation of
\* the use site it is at
TransformationsRead == stack # <<>> /\ Top.fn = "_pd_analytic" /\ Top.pc = "obs"

\* the device executes the transformed observables of the second-order path
ExecutingTransformed ==
    /\ Len(stack) > 1
    /\ Top.fn = "execute"
    /\ stack[Len(stack) - 1].fn = "_pd_analytic"

\* C37: in the second-order (Heisenberg) analytic path, for each use site
\* the transformation of the differentiated operation is read first under
\* the binding with the slot shifted up, then under the binding with the
\* slot shifted down, and its inverse and the transformation and inverse of
\* every later operation that is not an observable are read under the
\* unshifted binding; the device execution of the transformed observables,
\* one per returned observable in the same order, runs under the unshifted
\* binding as well.
C37_HeisenbergBindingOrder ==
    /\ TransformationsRead =>
           LET f == Top
               nd == node[f.self]
               o == OpIndex(nd, f)
               S == SiteShift(obj, nd, f)
               later == LaterGates(obj, nd.ops, o)
               reads == f.reads
           IN  /\ S # 0
               /\ Len(reads) = 3 + 2 * Cardinality(later)
               /\ reads[1] = [o |-> o, inverse |-> FALSE, shift |-> S]
               /\ reads[2] = [o |-> o, inverse |-> FALSE, shift |-> 0 - S]
               /\ reads[3] = [o |-> o, inverse |-> TRUE, shift |-> 0]
               /\ \A k \in 4..Len(reads) : reads[k].shift = 0 /\ reads[k].o \in later
               /\ \A i \in later : \E k \in 4..(Len(reads) - 1) :
                      /\ reads[k] = [o |-> i, inverse |-> FALSE, shift |-> 0]
                      /\ reads[k + 1] = [o |-> i, inverse |-> TRUE, shift |-> 0]
    /\ ExecutingTransformed =>
           LET f == stack[Len(stack) - 1]
               nd == node[f.self]
           IN  /\ binding.shift = 0
               /\ binding.free = f.nargs + 1
               /\ Len(Top.locals) = Len(nd.ev)
               /\ \A i \in 1..Len(nd.ev) :
                      /\ obj[Top.locals[i]].cls = "PolyXP"
                      /\ obj[Top.locals[i]].return_type = "Expectation"
                      /\ obj[Top.locals[i]].params = <<Number(IF obj[nd.ev[i]].cls = "PolyXP" THEN "qp(PolyXP)"
                                                             ELSE IF obj[nd.ev[i]].cls = "X" THEN "qp(X)" ELSE "qp")>>

\* the device measures the two transformed observables of a circuit with a
\* gate after the differentiated one, of which the first is transformed from
\* a second-order and the second from a first-order observable
C37_Witness ==
    /\ ExecutingTransformed
    /\ Top.pc # "start"
    /\ Len(Top.locals) = 2
    /\ obj[Top.locals[1]].params # obj[Top.locals[2]].params
    /\ Len(stack[Len(stack) - 1].reads) = 5

\* a construct call on node n is on the stack
Tracing(n) == \E i \in 1..Len(stack) : stack[i].fn = "construct" /\ stack[i].self = n

\* the step is line 596-597 of an evaluate that is not nested in a trace of
\* its own node: the device has executed queue and ev and the call returns
HandsToDevice ==
    /\ Running("evaluate", "bind")
    /\ ~Tracing(Top.self)
    /\ exc' = NoExc
    /\ Len(stack') = Len(stack) - 1

\* C38: evaluate and jacobian never hand the device gates or observables
\* that a construct call which ended in an error has recorded: whenever the
\* device executes for a call, with arguments of any flattened length, the
\* buffers are those of a construct call that completed (ops = queue + ev,
\* line 388).
C38_NoFailedTraceExecuted ==
    [][HandsToDevice => LET nd == node[Top.self] IN nd.ops # <<>> /\ nd.ops = nd.queue \o nd.ev]_vars

\* construct is entered while a trace holds the context: the call that line
\* 333 rejects
RejectedEntry == Running("construct", "start") /\ ctx # NoCtx

\* C39: a construct call that is rejected as re-entrant changes nothing: the
\* gate and observable buffers of the tape under construction (also when the
\* rejected call is on the node that is being traced), that node's
\* num_variables and argument template, and the process-wide parameter
\* binding are the same after the rejected call as before it.
C39_RejectedEntryChangesNothing ==
    [][RejectedEntry =>
           /\ Content(obj', node'[ctx].queue) = Content(obj, node[ctx].queue)
           /\ Content(obj', node'[ctx].ev) = Content(obj, node[ctx].ev)
           /\ node'[ctx].num_variables = node[ctx].num_variables
           /\ node'[ctx].model = node[ctx].model
           /\ binding' = binding]_vars

====
